---------------------------- MODULE Spec2Model ----------------------------
(***************************************************************************)
(* A model of notbadger's storage substrate: the MANIFEST change log       *)
(* (manifest.go, pb/manifest_change.go), the lock-free skiplist            *)
(* (skiplist/skiplist.go), the directory lock (dir_unix.go) and the        *)
(* startup reconciliation of the level controller.                         *)
(***************************************************************************)
EXTENDS Integers, Sequences, FiniteSets, TLC

(***************************************************************************)
(* Bounds of the model.                                                    *)
(***************************************************************************)
\* addChanges calls explored under the mixed workload
MaxOps == 2
\* addChanges calls explored under the churn workload (TestManifestRewrite's loop)
MaxChurnOps == 13
\* calls of the mixed workload that a crash on the append path may interrupt
MaxCrashOps == 1
\* addChanges calls of the short workload
MaxShortOps == 3
\* addChanges calls the concurrent callers make in all
MaxAppendCalls == 3
\* configured deletionsRewriteThreshold of the manifest file under the model
DeletionsThreshold == 1
\* tallest tower randomHeight draws under the model
MaxNodeHeight == 3
\* largest commit timestamp of a key put
MaxTs == 2
\* Open calls that contend for the directory lock
NumOpeners == 3
\* tables handed to one level handler
MaxLevelTables == 2
\* units of work dispatched through one throttle
MaxJobs == 5
\* tables of the manifest an Open is given
MaxOpenTables == 3
\* largest options.NumCompactors
MaxCompactors == 3
\* goroutines, besides the owner, that take references to one skiplist
NumReaders == 3
\* largest table id of the manifests a startup is given
MaxTableId == 7
\* id of the table file of a partition the manifest does not know
OrphanId == 171

(***************************************************************************)
(* Program constants.                                                      *)
(***************************************************************************)
manifestDeletionsRatio == 10
manifestVersion == 17375255
ManifestChangeSize == 24
ManifestChangeCreate == 0
ManifestChangeDelete == 1
EncryptionAlgorithmAES == 0
maxHeight == 20
TableFileNameLength == 24
throttleWorkers == 3

magicalText == <<33, 66, 103, 114>>

Nil == "nil"

(***************************************************************************)
(* State of the skiplist and of the goroutines inside SkipList.Put.        *)
(***************************************************************************)
VARIABLES
    nodes,       \* the arena: node offset -> key, value, height and tower
    height,      \* SkipList.height
    put,         \* each writer's position inside Put and its locals
    nPuts,       \* Put calls started so far
    completed    \* the Put calls that returned: user key, timestamp, value

skiplistVars ==
    <<nodes, height, put, nPuts, completed>>

(***************************************************************************)
(* State of the directory lock: the flock on the directory and the guards  *)
(* of the Open calls that contend for it.                                  *)
(***************************************************************************)
VARIABLES
    flocks,      \* open file descriptions of the directory that hold a flock -> its kind
    guards,      \* each Open call's position in acquireDirectoryLock / release
    pidFile      \* the Open call whose pid the pid file holds, 0 when there is no file

lockVars ==
    <<flocks, guards, pidFile>>

(***************************************************************************)
(* State of a startup: the directory listing, the manifest that was        *)
(* replayed, and the level controller being built.                         *)
(***************************************************************************)
VARIABLES
    dirFiles,    \* names of the files in the directory
    stManifest,  \* the manifest newLevelsController is given
    stPc,        \* "start", "reverted", "ok", "error", "panic"
    stErr,       \* the error newLevelsController returns
    stPartitions, \* levelsController.partitions: partition -> nextFileId
    stRemoved,   \* names of the files the startup removed
    stReadOnly   \* db.options.ReadOnly

startupVars ==
    <<dirFiles, stManifest, stPc, stErr, stPartitions, stRemoved, stReadOnly>>

(***************************************************************************)
(* State of one level handler.                                             *)
(***************************************************************************)
VARIABLES
    lhLevel,     \* levelHandler.level
    lhTables,    \* levelHandler.tables
    lhPc,        \* "new", "loaded", "validated"
    lhErr,       \* what validate returned
    lhTotalSize, \* levelHandler.totalSize
    lhGiven      \* the slice initTables was called with, as it was

levelVars ==
    <<lhLevel, lhTables, lhPc, lhErr, lhTotalSize, lhGiven>>

(***************************************************************************)
(* State of a z.Throttle, of the goroutine that dispatches work through it *)
(* and of the workers it admits.                                           *)
(***************************************************************************)
VARIABLES
    thChannel,       \* Throttle.channel: the number of slots taken
    thErrorChannel,  \* Throttle.errorChannel: the errors buffered, oldest first
    thWaitGroup,     \* Throttle.waitGroup: its counter
    thOnce,          \* Throttle.once has run
    thFinishError,   \* Throttle.finishError
    thPc,            \* the dispatcher: "loop", "add", "finish", "finished", "failed"
    thJobs,          \* Do calls that returned nil
    thDoErr,         \* the error a Do call returned
    thFinishReturns, \* what the Finish calls returned, in order
    thWorkers,       \* each worker's position and the error of its work
    thPassed         \* the non-nil errors workers called Done with

throttleVars ==
    <<thChannel, thErrorChannel, thWaitGroup, thOnce, thFinishError, thPc, thJobs, thDoErr,
      thFinishReturns, thWorkers, thPassed>>

(***************************************************************************)
(* State of one call of Open: the goroutine inside Open, the resources of  *)
(* the operating system it holds, and the workers that open the tables.    *)
(***************************************************************************)
VARIABLES
    opOptions,   \* Options: ReadOnly, the value directory being the directory, the tables
    opPc,        \* where Open is
    opErr,       \* the error Open returns
    opLocals,    \* directoryLockGuard, valueDirectoryLockGuard, manifestFile that are not nil
    opHeld,      \* locks, pid files and the manifest file handle the process holds
    opFiles,     \* the table files the process holds an open handle of
    opTables,    \* the `tables` of newLevelsController: one entry per table appended
    opStarted,   \* workers started so far
    opWorkers,   \* each worker's position and error
    opErrors     \* the throttle's errorChannel

openVars ==
    <<opOptions, opPc, opErr, opLocals, opHeld, opFiles, opTables, opStarted, opWorkers,
      opErrors>>

(***************************************************************************)
(* State of the reference count of one skiplist and of the goroutines that *)
(* hold references to it.                                                  *)
(***************************************************************************)
VARIABLES
    slReferences,  \* SkipList.references
    slArena,       \* SkipList.arena: "live", or "released" once reset and set to nil
    slHolders,     \* each goroutine's position: what it holds, or where in DecrementReferences
    slNewRef,      \* each goroutine's newRef inside DecrementReferences
    slReleasedBy   \* the goroutines that released the arena, in order

refVars ==
    <<slReferences, slArena, slHolders, slNewRef, slReleasedBy>>

(***************************************************************************)
(* State of the compactors' Closer, of the compaction workers and of the   *)
(* shutdown that waits for them.                                           *)
(***************************************************************************)
VARIABLES
    numCompactors, \* options.NumCompactors
    clClosed,      \* Closer.closed: TRUE once the done signal is raised
    clWaiting,     \* Closer.waiting: the count of the wait group
    clPc,          \* the database's position: "opened", "compacting", "waiting", "stopped"
    cwPc,          \* each worker's position in runWorker
    cwTimer        \* each worker's ticker: TRUE while the timer has yet to fire

closerVars ==
    <<numCompactors, clClosed, clWaiting, clPc, cwPc, cwTimer>>

(***************************************************************************)
(* State of the calls of keyRange.overlapsWith on two key ranges.          *)
(***************************************************************************)
VARIABLES
    krA,       \* one keyRange
    krB,       \* another keyRange
    krCalled,  \* the calls made: "ab" is a.overlapsWith(b), "ba", "aa"
    krResult   \* what each call returned

rangeVars ==
    <<krA, krB, krCalled, krResult>>

(***************************************************************************)
(* State of one call of Open up to the key registry: the options it is     *)
(* given, the directory it works in, and what it has done to it.           *)
(***************************************************************************)
VARIABLES
    cfOptions,   \* opts
    cfPc,        \* the position in Open
    cfErr,       \* the error Open returns
    cfDisk,      \* what exists on disk: the directory and the files in it
    cfGuards,    \* the directory locks held
    cfEffects,   \* what Open has done so far: directories made, locks taken, files written
    cfRegistry   \* what OpenKeyRegistry was given and returned

configVars ==
    <<cfOptions, cfPc, cfErr, cfDisk, cfGuards, cfEffects, cfRegistry>>

(***************************************************************************)
(* State of one call of a conversion of the program: the comparison of     *)
(* timestamped keys, the encoding of change sets, the names of table files.*)
(***************************************************************************)
VARIABLES
    cdKind,      \* which conversion is called: "keys", "set", "buffer", "id", "name"
    cdKeys,      \* three timestamped keys to compare
    cdSet,       \* the changes of a ManifestChangeSet to marshal
    cdBuffer,    \* bytes to unmarshal, or the name of a file to parse
    cdIds,       \* a partition id and a file id to name a table file
    cdDone,      \* TRUE once the conversion was called
    cdCompare,   \* CompareKeys of each pair of the three keys
    cdBytes,     \* the bytes or the file name the conversion gave
    cdBack       \* what Unmarshal or ParseFileId returned

codecVars ==
    <<cdKind, cdKeys, cdSet, cdBuffer, cdIds, cdDone, cdCompare, cdBytes, cdBack>>

(***************************************************************************)
(* State of one open manifest file and of the goroutines inside            *)
(* addChanges at the same time.                                            *)
(***************************************************************************)
VARIABLES
    alLock,      \* manifestFile.appendLock: the caller that holds it, 0 when free
    alManifest,  \* manifestFile.manifest
    alFile,      \* the bytes of MANIFEST
    alPc,        \* each caller's position inside addChanges
    alSet,       \* each caller's manifestChanges
    alErr,       \* what each caller's last addChanges returned
    alCalls,     \* addChanges calls made so far
    alBase,      \* MANIFEST as the open, or the last rewrite, left it
    alApplied    \* the change sets applied to manifestFile.manifest since, in order

appendVars ==
    <<alLock, alManifest, alFile, alPc, alSet, alErr, alCalls, alBase, alApplied>>

(***************************************************************************)
(* State of one table (table/table.go): its reference count, its file      *)
(* handle, its file in the directory, and the goroutines that hold it.     *)
(***************************************************************************)
VARIABLES
    tbReferences, \* Table.references
    tbFile,       \* Table.file: "open" or "closed"
    tbDisk,       \* the table's file in the directory: "whole", "truncated", "removed"
    tbHolders,    \* each goroutine: what it holds, or its position in DecrementReference
    tbNewRef,     \* newReference of each goroutine's DecrementReference
    tbEvents      \* the truncations and removals done, in order, with the goroutine

tableVars ==
    <<tbReferences, tbFile, tbDisk, tbHolders, tbNewRef, tbEvents>>

\* the components that stand apart from the manifest, the skiplist, the lock
\* and the startup
componentVars ==
    <<levelVars, throttleVars, openVars, refVars, closerVars, rangeVars, configVars, codecVars, appendVars, tableVars>>

\* what the operations on the manifest leave alone
nonManifestVars ==
    <<skiplistVars, lockVars, startupVars, componentVars>>

(***************************************************************************)
(* encoding/binary.BigEndian on the values the model uses (below 2^31).    *)
(***************************************************************************)
PutUint32(n) ==
    <<(n \div 16777216) % 256, (n \div 65536) % 256, (n \div 256) % 256, n % 256>>

PutUint64(n) ==
    <<0, 0, 0, 0>> \o PutUint32(n)

Uint32(b) ==
    b[1] * 16777216 + b[2] * 65536 + b[3] * 256 + b[4]

Uint64(b) ==
    Uint32(SubSeq(b, 5, 8))

\* The 32-bit checksum of a payload.  The program calls xxhash.Checksum32; the
\* model keeps what the manifest needs of it: a deterministic function of
\* every byte and of its position.
RECURSIVE ChecksumOf(_, _, _)
ChecksumOf(buf, lo, hi) ==
    IF lo > hi THEN 0
    ELSE IF lo = hi THEN (lo * (buf[lo] + 1)) % 1000003
    ELSE (ChecksumOf(buf, lo, (lo + hi) \div 2)
            + ChecksumOf(buf, (lo + hi) \div 2 + 1, hi)) % 1000003

Checksum32(buf) ==
    (ChecksumOf(buf, 1, Len(buf)) + 7 * Len(buf) + 1) % 1000003

(***************************************************************************)
(* pb.ManifestChange and pb.ManifestChangeSet.                             *)
(***************************************************************************)
ManifestChange(p, t, op, level, keyId, alg, compression) ==
    [PartitionId |-> p, TableId |-> t, Operation |-> op, Level |-> level,
     KeyId |-> keyId, EncryptionAlgorithm |-> alg, Compression |-> compression]

newCreateChange(partitionId, tableId, level, keyId, compression) ==
    ManifestChange(partitionId, tableId, ManifestChangeCreate, level, keyId,
                   EncryptionAlgorithmAES, compression)

newDeleteChange(partitionId, tableId) ==
    ManifestChange(partitionId, tableId, ManifestChangeDelete, 0, 0, 0, 0)

MarshalChange(mc) ==
    PutUint32(mc.PartitionId) \o PutUint64(mc.TableId) \o <<mc.Operation>>
        \o <<mc.Level>> \o PutUint64(mc.KeyId) \o <<mc.EncryptionAlgorithm>>
        \o <<mc.Compression>>

UnmarshalChange(src) ==
    [PartitionId |-> Uint32(SubSeq(src, 1, 4)),
     TableId |-> Uint64(SubSeq(src, 5, 12)),
     Operation |-> src[13],
     Level |-> src[14],
     KeyId |-> Uint64(SubSeq(src, 15, 22)),
     EncryptionAlgorithm |-> src[23],
     Compression |-> src[24]]

RECURSIVE MarshalChangesFrom(_, _)
MarshalChangesFrom(changes, i) ==
    IF i > Len(changes) THEN <<>>
    ELSE MarshalChange(changes[i]) \o MarshalChangesFrom(changes, i + 1)

MarshalSet(changes) ==
    PutUint32(Len(changes)) \o MarshalChangesFrom(changes, 1)

\* expectedTotalSize := 4 + (ManifestChangeSize * count), in uint32 arithmetic:
\* the high and the low 16 bits of the sum modulo 2^32, from the four bytes of
\* the count
expectedTotalSize(prefix) ==
    LET countHigh == prefix[1] * 256 + prefix[2]
        countLow == prefix[3] * 256 + prefix[4]
        low == 4 + ManifestChangeSize * countLow
    IN [high |-> (ManifestChangeSize * countHigh + low \div 65536) % 65536,
        low |-> low % 65536]

\* ManifestChangeSet.Unmarshal.  src is shorter than 65536 bytes, so
\* uint32(len(src)) < expectedTotalSize when the high half of the size is not
\* zero or len(src) is below its low half.  A count that passes the test
\* although its changes do not fit in src, the size having wrapped around, has
\* the loop slice src past its end, which panics.
UnmarshalSet(src) ==
    IF Len(src) < 4 THEN [changes |-> <<>>, err |-> "short"]
    ELSE LET expected == expectedTotalSize(SubSeq(src, 1, 4))
             count == src[3] * 256 + src[4]
         IN IF expected.high > 0 \/ Len(src) < expected.low
            THEN [changes |-> <<>>, err |-> "short"]
            ELSE IF src[1] > 0 \/ src[2] > 0
            THEN [changes |-> <<>>, err |-> "panic"]
            ELSE [changes |->
                      [i \in 1..count |->
                          UnmarshalChange(SubSeq(src, 4 + (i - 1) * ManifestChangeSize + 1,
                                                 4 + i * ManifestChangeSize))],
                  err |-> Nil]

(***************************************************************************)
(* The in-memory Manifest.                                                 *)
(***************************************************************************)
createManifest ==
    [Partitions |-> <<>>, Creations |-> 0, Deletions |-> 0, TotalTables |-> 0]

emptyPartition ==
    [Levels |-> <<>>, Tables |-> <<>>]

RECURSIVE extendLevels(_, _)
extendLevels(levels, level) ==
    IF Len(levels) <= level THEN extendLevels(Append(levels, {}), level)
    ELSE levels

\* A create of a table the partition does not hold yet.
applyCreate(partition, change) ==
    [Tables |-> partition.Tables @@
                  (change.TableId :> [Level |-> change.Level, KeyID |-> change.KeyId,
                                      Compression |-> change.Compression]),
     Levels |-> [extendLevels(partition.Levels, change.Level)
                    EXCEPT ![change.Level + 1] = @ \cup {change.TableId}]]

\* A delete that forgets the level set of the table.
applyDelete_KeepsLevelMember(partition, change) ==
    [Tables |-> [t \in (DOMAIN partition.Tables) \ {change.TableId} |-> partition.Tables[t]],
     Levels |-> partition.Levels]

\* A delete of a table the partition holds.
applyDelete(partition, change) ==
    [Tables |-> [t \in (DOMAIN partition.Tables) \ {change.TableId} |-> partition.Tables[t]],
     Levels |-> [partition.Levels
                    EXCEPT ![partition.Tables[change.TableId].Level + 1] =
                               @ \ {change.TableId}]]

applyManifestChange(build, change) ==
    LET pid == change.PartitionId
        parts == IF pid \in DOMAIN build.Partitions THEN build.Partitions
                 ELSE build.Partitions @@ (pid :> emptyPartition)
        partition == parts[pid]
        b == [build EXCEPT !.Partitions = parts]
    IN CASE change.Operation = ManifestChangeCreate ->
              IF change.TableId \in DOMAIN partition.Tables
              THEN [m |-> b, err |-> "table already exists"]
              ELSE [m |-> [b EXCEPT !.Partitions[pid] = applyCreate(partition, change),
                                    !.Creations = @ + 1,
                                    !.TotalTables = @ + 1],
                    err |-> Nil]
         [] change.Operation = ManifestChangeDelete ->
              IF change.TableId \notin DOMAIN partition.Tables
              THEN [m |-> b, err |-> "removes non-existing table"]
              ELSE [m |-> [b EXCEPT !.Partitions[pid] = applyDelete(partition, change),
                                    !.Deletions = @ + 1,
                                    !.TotalTables = @ - 1],
                    err |-> Nil]
         [] OTHER -> [m |-> b, err |-> "errBadManifestOperation"]

RECURSIVE applyChangeSetFrom(_, _, _)
applyChangeSetFrom(build, changes, i) ==
    IF i > Len(changes) THEN [m |-> build, err |-> Nil]
    ELSE LET r == applyManifestChange(build, changes[i])
         IN IF r.err # Nil THEN r ELSE applyChangeSetFrom(r.m, changes, i + 1)

\* applyChangeSet that gives the manifest back untouched when a change is rejected
applyChangeSet_Atomic(build, changes) ==
    IF applyChangeSetFrom(build, changes, 1).err = Nil
    THEN applyChangeSetFrom(build, changes, 1)
    ELSE [m |-> build, err |-> applyChangeSetFrom(build, changes, 1).err]

applyChangeSet(build, changes) ==
    applyChangeSetFrom(build, changes, 1)

\* Creations that put every table back at level 0.
asChangesSet_LevelZero(m) ==
    UNION {{newCreateChange(p, t, 0,
                            m.Partitions[p].Tables[t].KeyID,
                            m.Partitions[p].Tables[t].Compression)
               : t \in DOMAIN m.Partitions[p].Tables}
              : p \in DOMAIN m.Partitions}

\* The creations that rebuild the manifest, as a set: the program ranges over
\* two maps, so the order of the changes it returns is any order.
asChangesSet(m) ==
    UNION {{newCreateChange(p, t, m.Partitions[p].Tables[t].Level,
                            m.Partitions[p].Tables[t].KeyID,
                            m.Partitions[p].Tables[t].Compression)
               : t \in DOMAIN m.Partitions[p].Tables}
              : p \in DOMAIN m.Partitions}

Orderings(S) ==
    {s \in [1..Cardinality(S) -> S] : \A i, j \in 1..Cardinality(S) : i # j => s[i] # s[j]}

asChanges(m) ==
    Orderings(asChangesSet(m))

clone(m) ==
    applyChangeSet(createManifest, CHOOSE s \in asChanges(m) : TRUE).m

(***************************************************************************)
(* The MANIFEST file: framing, rewrite and replay.                         *)
(***************************************************************************)
ManifestFilename == "MANIFEST"
manifestRewriteFilename == "MANIFEST-REWRITE"

\* [length][checksum][payload] of one change set
Record(changes) ==
    LET buf == MarshalSet(changes)
    IN PutUint32(Len(buf)) \o PutUint32(Checksum32(buf)) \o buf

\* The bytes helpRewrite writes to MANIFEST-REWRITE for the changes asChanges
\* returned: magic, version and one record.
helpRewriteBytes(changes) ==
    magicalText \o PutUint32(manifestVersion) \o Record(changes)

RECURSIVE replayFrom(_, _, _)
replayFrom(file, build, offset) ==
    IF Len(file) - offset < 8
    THEN [manifest |-> build, offset |-> offset, err |-> Nil]
    ELSE LET length == Uint32(SubSeq(file, offset + 1, offset + 4))
             crc == Uint32(SubSeq(file, offset + 5, offset + 8))
             buf == SubSeq(file, offset + 9, offset + 8 + length)
         IN IF length > Len(file)
            THEN [manifest |-> createManifest, offset |-> 0,
                  err |-> "buffer length for change set greater than file size"]
            ELSE IF Len(file) - offset - 8 < length
            THEN [manifest |-> build, offset |-> offset, err |-> Nil]
            ELSE IF Checksum32(buf) # crc
            THEN [manifest |-> createManifest, offset |-> 0, err |-> "ErrBadManifestChecksum"]
            ELSE IF UnmarshalSet(buf).err # Nil
            THEN [manifest |-> createManifest, offset |-> 0, err |-> "failed to unmarshal"]
            ELSE LET r == applyChangeSet(build, UnmarshalSet(buf).changes)
                 IN IF r.err # Nil
                    THEN [manifest |-> createManifest, offset |-> 0,
                          err |-> "failed to apply change set"]
                    ELSE replayFrom(file, r.m, offset + 8 + length)

\* replay that reads the version and does not compare it
ReplayManifestFile_NoVersionCheck(file) ==
    IF Len(file) < 8 \/ SubSeq(file, 1, 4) # magicalText
    THEN [manifest |-> createManifest, offset |-> 0, err |-> "errBadMagic"]
    ELSE replayFrom(file, createManifest, 8)

\* ReplayManifestFile that returns the size of the file as its offset
ReplayManifestFile_FileEnd(file) ==
    IF Len(file) < 8 \/ SubSeq(file, 1, 4) # magicalText
    THEN [manifest |-> createManifest, offset |-> 0, err |-> "errBadMagic"]
    ELSE IF Uint32(SubSeq(file, 5, 8)) # manifestVersion
    THEN [manifest |-> createManifest, offset |-> 0, err |-> "ErrBadManifestVersion"]
    ELSE [replayFrom(file, createManifest, 8) EXCEPT !.offset = Len(file)]

ReplayManifestFile(file) ==
    IF Len(file) < 8 \/ SubSeq(file, 1, 4) # magicalText
    THEN [manifest |-> createManifest, offset |-> 0, err |-> "errBadMagic"]
    ELSE IF Uint32(SubSeq(file, 5, 8)) # manifestVersion
    THEN [manifest |-> createManifest, offset |-> 0, err |-> "ErrBadManifestVersion"]
    ELSE replayFrom(file, createManifest, 8)

\* addChanges that rewrites on the threshold alone
shouldRewrite_ThresholdOnly(m, deletionsRewriteThreshold) ==
    m.Deletions > deletionsRewriteThreshold

\* addChanges takes the rewrite path on this manifest
shouldRewrite(m, deletionsRewriteThreshold) ==
    /\ m.Deletions > deletionsRewriteThreshold
    /\ m.Deletions > manifestDeletionsRatio * (m.Creations - m.Deletions)

\* rewrite that forgets to reset the deletions
afterRewrite_KeepsDeletions(m) ==
    [m EXCEPT !.Creations = m.TotalTables]

\* rewrite's bookkeeping once helpRewrite returned netCreations
afterRewrite(m) ==
    [m EXCEPT !.Creations = m.TotalTables, !.Deletions = 0]

(***************************************************************************)
(* State of the manifest file and of the process that holds it open.       *)
(***************************************************************************)
VARIABLES
    disk,        \* the directory's manifest files: file name -> bytes
    phase,       \* "closed", "replayed", "open", "crashed", "panicked"
    mfManifest,  \* manifestFile.manifest
    opened,      \* what the last helpOpenOrCreateManifestFile returned
    nextFileId,  \* partitionLevels.nextFileId of each partition set up
    lastErr,     \* what the last addChanges returned
    workload,    \* which change sets the callers submit
    nOps,        \* addChanges calls made so far
    ref,         \* the change sets that returned nil, applied to an empty manifest
    clean,       \* every addChanges so far returned nil and the process never crashed
    crashCtx,    \* the live tables before and after the change set a crash interrupted
    created,     \* the (partition, table) pairs a change set that returned nil created
    rewritten,   \* MANIFEST is as helpRewrite left it and the manifest in memory as rewrite did
    reused       \* a change set that returned nil created a pair created before

manifestVars ==
    <<disk, phase, mfManifest, opened, nextFileId, lastErr, workload, nOps, ref, clean,
      crashCtx, created, reused, rewritten>>

\* the manifest, the skiplist, the lock and the startup together
storageVars ==
    <<manifestVars, skiplistVars, lockVars, startupVars>>

PartitionIds == {0, 1}
\* table ids the mixed workload uses in partition 0
MixedTableIds == {1, 2}
\* (level, keyId, compression) of the tables the callers create
TableProfiles == {<<0, 0, 0>>, <<1, 1, 1>>}

MixedChanges ==
    {newCreateChange(0, t, prof[1], prof[2], prof[3]) : t \in MixedTableIds, prof \in TableProfiles}
    \cup {newDeleteChange(0, t) : t \in MixedTableIds}
    \cup {newCreateChange(1, 1, 1, 0, 1), newDeleteChange(1, 1)}
    \cup {ManifestChange(0, 1, 2, 0, 0, 0, 0)}      \* an operation that is neither

\* The mixed workload: any one change, or a creation followed by any change on
\* the same partition.
MixedSets ==
    {<<c>> : c \in MixedChanges}
    \cup {s \in {<<c, d>> : c \in MixedChanges, d \in MixedChanges} :
             /\ s[1].Operation = ManifestChangeCreate
             /\ s[2].PartitionId = s[1].PartitionId}

\* The churn workload is TestManifestRewrite's: create table 0, then in call i
\* create table i and delete table i - 1; the tables alternate between the
\* two profiles.
ChurnProfile(n) ==
    <<n % 2, n % 2, n % 2>>

ChurnSets(n) ==
    IF n = 0
    THEN {<<newCreateChange(0, 0, 0, 0, 0)>>}
    ELSE {<<newCreateChange(0, n, ChurnProfile(n)[1], ChurnProfile(n)[2], ChurnProfile(n)[3]),
            newDeleteChange(0, n - 1)>>}

\* a table created and deleted, and deleted once more
TwiceDeleted ==
    <<newCreateChange(0, 1, 0, 0, 0), newDeleteChange(0, 1), newDeleteChange(0, 1)>>

\* The short workload: sets that are accepted, and sets rejected at their
\* first, second and third change.
ShortSets ==
    {<<newCreateChange(0, 1, 0, 0, 0)>>,
     <<newCreateChange(1, 1, 1, 0, 1)>>,
     <<newDeleteChange(0, 1)>>,
     <<ManifestChange(0, 1, 2, 0, 0, 0, 0)>>,
     <<newCreateChange(0, 1, 0, 0, 0), newCreateChange(0, 1, 0, 0, 0)>>,
     <<newCreateChange(0, 1, 0, 0, 0), newDeleteChange(0, 1)>>,
     <<newCreateChange(0, 2, 1, 1, 1), newDeleteChange(0, 1)>>,
     <<newCreateChange(0, 2, 1, 1, 1), newDeleteChange(1, 1)>>,
     TwiceDeleted}

Inputs ==
    IF workload = "mixed"
    THEN IF nOps < MaxOps THEN MixedSets ELSE {}
    ELSE IF workload = "churn"
    THEN IF nOps < MaxChurnOps THEN ChurnSets(nOps) ELSE {}
    ELSE IF nOps < MaxShortOps THEN ShortSets ELSE {}

NoOpen == [manifest |-> createManifest, offset |-> 0, err |-> "not opened"]
NoCrash == [crashed |-> FALSE, before |-> {}, after |-> {}]

\* The live tables of a manifest: (partition, table, level, keyId, compression).
TablesOf(m) ==
    UNION {{<<p, t, m.Partitions[p].Tables[t].Level, m.Partitions[p].Tables[t].KeyID,
              m.Partitions[p].Tables[t].Compression>> : t \in DOMAIN m.Partitions[p].Tables}
              : p \in DOMAIN m.Partitions}

\* The pairs the creations of a change set name, and whether one of them was
\* created before (by an earlier set, or earlier in this set).
RECURSIVE createdBy(_, _, _)
createdBy(changes, i, seen) ==
    IF i > Len(changes) THEN [seen |-> seen, again |-> FALSE]
    ELSE IF changes[i].Operation # ManifestChangeCreate
    THEN createdBy(changes, i + 1, seen)
    ELSE LET pair == <<changes[i].PartitionId, changes[i].TableId>>
             rest == createdBy(changes, i + 1, seen \cup {pair})
         IN [seen |-> rest.seen, again |-> rest.again \/ pair \in seen]

ManifestInit ==
    /\ disk = <<>>
    /\ phase = "closed"
    /\ mfManifest = createManifest
    /\ opened = NoOpen
    /\ nextFileId = <<>>
    /\ lastErr = Nil
    /\ workload \in {"mixed", "churn"}
    /\ nOps = 0
    /\ ref = createManifest
    /\ clean = TRUE
    /\ crashCtx = NoCrash
    /\ created = {}
    /\ reused = FALSE
    /\ rewritten = FALSE

(***************************************************************************)
(* Operations on the manifest file.                                        *)
(***************************************************************************)
MaxOf(S) ==
    CHOOSE x \in S : \A y \in S : y <= x

\* helpOpenOrCreateManifestFile(directory, readOnly = false, DeletionsThreshold)
OpenManifest ==
    /\ phase \in {"closed", "crashed", "panicked"}
    /\ \/ /\ ManifestFilename \notin DOMAIN disk
          /\ disk' = [n \in ((DOMAIN disk) \ {manifestRewriteFilename})
                              \cup {ManifestFilename} |->
                         IF n = ManifestFilename THEN helpRewriteBytes(<<>>) ELSE disk[n]]
          /\ mfManifest' = clone(createManifest)
          /\ opened' = [manifest |-> createManifest, offset |-> 0, err |-> Nil]
          /\ phase' = "replayed"
          /\ rewritten' = TRUE
       \/ /\ ManifestFilename \in DOMAIN disk
          /\ ReplayManifestFile(disk[ManifestFilename]).err # Nil
          /\ opened' = ReplayManifestFile(disk[ManifestFilename])
          /\ phase' = "closed"
          /\ UNCHANGED <<disk, mfManifest, rewritten>>
       \/ /\ ManifestFilename \in DOMAIN disk
          /\ LET r == ReplayManifestFile(disk[ManifestFilename])
             IN /\ r.err = Nil
                /\ disk' = [disk EXCEPT ![ManifestFilename] = SubSeq(@, 1, r.offset)]
                /\ mfManifest' = clone(r.manifest)
                /\ opened' = r
          /\ phase' = "replayed"
          /\ UNCHANGED rewritten
    /\ UNCHANGED <<nextFileId, lastErr, workload, nOps, ref, clean, crashCtx, created, reused>>
    /\ UNCHANGED nonManifestVars

\* What newLevelsController does with the manifest it was given, the files of
\* its tables all being there and opening: it sets up partition 0 only, and
\* stores maxFileId + 1 into the partitionLevels of every manifest partition.
NewLevelsController ==
    /\ phase = "replayed"
    /\ \/ /\ DOMAIN opened.manifest.Partitions \subseteq {0}
          /\ nextFileId' =
                (0 :> IF 0 \in DOMAIN opened.manifest.Partitions
                      THEN MaxOf(DOMAIN opened.manifest.Partitions[0].Tables \cup {0}) + 1
                      ELSE 0)
          /\ phase' = "open"
       \/ /\ ~(DOMAIN opened.manifest.Partitions \subseteq {0})
          /\ phase' = "panicked"
          /\ UNCHANGED nextFileId
    /\ UNCHANGED <<disk, mfManifest, opened, lastErr, workload, nOps, ref, clean, crashCtx,
                   created, reused, rewritten>>
    /\ UNCHANGED nonManifestVars

\* manifestFile.addChanges(changes), the write and the fsync succeeding
AddChanges(changes) ==
    /\ phase = "open"
    /\ nOps' = nOps + 1
    /\ crashCtx' = NoCrash
    /\ LET r == applyChangeSet(mfManifest, changes)
       IN \/ /\ r.err # Nil
             /\ mfManifest' = r.m
             /\ lastErr' = r.err
             /\ clean' = FALSE
             /\ rewritten' = FALSE
             /\ UNCHANGED <<disk, ref, created, reused>>
          \/ /\ r.err = Nil
             /\ shouldRewrite(r.m, DeletionsThreshold)
             /\ \E order \in asChanges(r.m) :
                   disk' = [n \in ((DOMAIN disk) \ {manifestRewriteFilename}) |->
                               IF n = ManifestFilename THEN helpRewriteBytes(order)
                               ELSE disk[n]]
             /\ mfManifest' = afterRewrite(r.m)
             /\ rewritten' = TRUE
             /\ lastErr' = Nil
             /\ ref' = IF clean THEN applyChangeSet(ref, changes).m ELSE ref
             /\ created' = createdBy(changes, 1, created).seen
             /\ reused' = (reused \/ createdBy(changes, 1, created).again)
             /\ UNCHANGED clean
          \/ /\ r.err = Nil
             /\ ~shouldRewrite(r.m, DeletionsThreshold)
             /\ disk' = [disk EXCEPT ![ManifestFilename] = @ \o Record(changes)]
             /\ mfManifest' = r.m
             /\ rewritten' = FALSE
             /\ lastErr' = Nil
             /\ ref' = IF clean THEN applyChangeSet(ref, changes).m ELSE ref
             /\ created' = createdBy(changes, 1, created).seen
             /\ reused' = (reused \/ createdBy(changes, 1, created).again)
             /\ UNCHANGED clean
    /\ UNCHANGED <<phase, opened, nextFileId, workload>>
    /\ UNCHANGED nonManifestVars

\* manifestFile.close()
CloseManifest ==
    /\ phase = "open"
    /\ phase' = "closed"
    /\ UNCHANGED <<disk, mfManifest, opened, nextFileId, lastErr, workload, nOps, ref, clean,
                   crashCtx, created, reused, rewritten>>
    /\ UNCHANGED nonManifestVars

\* The process stops inside addChanges(changes).  On the append path any
\* prefix of the record may have reached the file.  On the rewrite path the
\* stop comes either before the rename, with any prefix of the new contents in
\* MANIFEST-REWRITE, or after it.
CrashInAddChanges(changes) ==
    /\ phase = "open"
    /\ workload = "mixed"
    /\ clean
    /\ LET r == applyChangeSet(mfManifest, changes)
       IN /\ r.err = Nil
          /\ crashCtx' = [crashed |-> TRUE, before |-> TablesOf(mfManifest),
                          after |-> TablesOf(r.m)]
          /\ \/ /\ ~shouldRewrite(r.m, DeletionsThreshold)
                /\ nOps < MaxCrashOps
                /\ \E k \in 0..Len(Record(changes)) :
                      disk' = [disk EXCEPT ![ManifestFilename] =
                                              @ \o SubSeq(Record(changes), 1, k)]
                /\ rewritten' = FALSE
             \/ /\ shouldRewrite(r.m, DeletionsThreshold)
                /\ \E order \in asChanges(r.m) :
                      \E k \in 0..Len(helpRewriteBytes(order)) :
                         disk' = [n \in (DOMAIN disk) \cup {manifestRewriteFilename} |->
                                     IF n = manifestRewriteFilename
                                     THEN SubSeq(helpRewriteBytes(order), 1, k)
                                     ELSE disk[n]]
                /\ UNCHANGED rewritten
             \/ /\ shouldRewrite(r.m, DeletionsThreshold)
                /\ \E order \in asChanges(r.m) :
                      disk' = [n \in ((DOMAIN disk) \ {manifestRewriteFilename}) |->
                                  IF n = ManifestFilename THEN helpRewriteBytes(order)
                                  ELSE disk[n]]
                /\ rewritten' = TRUE
    /\ phase' = "crashed"
    /\ clean' = FALSE
    /\ nOps' = nOps + 1
    /\ UNCHANGED <<mfManifest, opened, nextFileId, lastErr, workload, ref, created, reused>>
    /\ UNCHANGED nonManifestVars

NextManifest ==
    \/ OpenManifest
    \/ NewLevelsController
    \/ \E changes \in Inputs : AddChanges(changes)
    \/ CloseManifest
    \/ \E changes \in Inputs : CrashInAddChanges(changes)

(***************************************************************************)
(* Properties of the manifest.                                             *)
(***************************************************************************)
TableKeys(m) ==
    UNION {{<<p, t>> : t \in DOMAIN m.Partitions[p].Tables} : p \in DOMAIN m.Partitions}

\* The members of the level sets of a manifest: (partition, level, table).
LevelMembers(m) ==
    UNION {UNION {{<<p, l - 1, t>> : t \in m.Partitions[p].Levels[l]}
                     : l \in 1..Len(m.Partitions[p].Levels)}
              : p \in DOMAIN m.Partitions}

ManifestConsistent(m) ==
    /\ \A p \in DOMAIN m.Partitions :
          /\ \A t \in DOMAIN m.Partitions[p].Tables :
                {l \in 1..Len(m.Partitions[p].Levels) : t \in m.Partitions[p].Levels[l]}
                    = {m.Partitions[p].Tables[t].Level + 1}
          /\ \A l \in 1..Len(m.Partitions[p].Levels) :
                m.Partitions[p].Levels[l] \subseteq DOMAIN m.Partitions[p].Tables
    /\ m.TotalTables = Cardinality(TableKeys(m))

\* C1: when every addChanges so far returned nil, whether it appended or
\* rewrote, a reopen replays without error to the live tables (each with its
\* level, keyId and compression, and in the level set of its level) that
\* applying the same change sets in order to an empty manifest gives.
C1_ReplayEqualsApplied ==
    clean =>
        /\ opened.err \in {Nil, "not opened"}
        /\ phase = "replayed" =>
              /\ TablesOf(opened.manifest) = TablesOf(ref)
              /\ LevelMembers(opened.manifest) = LevelMembers(ref)

\* C1 witness: the churn workload reopened right after its rewrite, which left
\* one record holding the one live table 11 (level 1, keyId 1, compression 1).
C1_Witness ==
    /\ workload = "churn"
    /\ clean
    /\ phase = "replayed"
    /\ nOps = 12
    /\ opened.manifest.Deletions = 0
    /\ TablesOf(opened.manifest) = {<<0, 11, 1, 1, 1>>}

\* C2: after a crash inside addChanges (none of the calls before it having
\* been rejected) the next open replays without error, to the live tables
\* before the whole change set or to those after it.
C2_CrashAtomic ==
    (crashCtx.crashed /\ phase # "crashed") =>
        /\ opened.err = Nil
        /\ TablesOf(opened.manifest) \in {crashCtx.before, crashCtx.after}

\* C3: in the manifest addChanges maintains (rejected changes included) and in
\* the one replay returns, every table is in exactly the level set of its
\* level, every member of a level set is a table, and TotalTables counts the
\* tables of all partitions.
C3_TablesAndLevels ==
    /\ ManifestConsistent(mfManifest)
    /\ ManifestConsistent(opened.manifest)

\* C3 witness: a change set was rejected part-way, and three tables of two
\* partitions are live.
C3_Witness ==
    /\ lastErr # Nil
    /\ mfManifest.TotalTables = 3
    /\ DOMAIN mfManifest.Partitions = {0, 1}

\* C10: no change set that returned nil creates a (partition, table) pair
\* created before, and the nextFileId a startup stores is above every table id
\* created in that partition before.
C10_NeverReused ==
    [][/\ ~reused'
       /\ (phase = "replayed" /\ phase' = "open") =>
             \A pair \in created :
                pair[1] \in DOMAIN nextFileId' => pair[2] < nextFileId'[pair[1]]]_manifestVars

\* C12: immediately after every manifest rewrite, and in the manifest replayed
\* from a freshly rewritten file, Deletions = 0 and Creations = TotalTables.
C12_AfterRewrite ==
    rewritten =>
        /\ phase = "open" =>
               /\ mfManifest.Deletions = 0
               /\ mfManifest.Creations = mfManifest.TotalTables
        /\ phase = "replayed" =>
               /\ opened.manifest.Deletions = 0
               /\ opened.manifest.Creations = opened.manifest.TotalTables

\* addChanges rewrote a manifest of one live table, and the file it wrote was
\* replayed
C12_Witness ==
    /\ rewritten
    /\ nOps > 0
    /\ phase = "replayed"
    /\ opened.manifest.TotalTables = 1
    /\ opened.manifest.Creations = 1

(***************************************************************************)
(* Opening the MANIFEST files a directory may hold: written by another     *)
(* program or version, cut short, or damaged in their last record.         *)
(***************************************************************************)
ManifestHeader ==
    magicalText \o PutUint32(manifestVersion)

\* the header cut short, or with one byte zeroed or raised by one
HeaderMenu ==
    {SubSeq(ManifestHeader, 1, k) : k \in 0..8}
    \cup {[ManifestHeader EXCEPT ![i] = 0] : i \in 1..8}
    \cup {[ManifestHeader EXCEPT ![i] = @ + 1] : i \in 1..8}

FirstRecord == Record(<<newCreateChange(0, 1, 0, 0, 0)>>)
LastRecord ==
    Record(<<newCreateChange(1, 1, 1, 0, 1), newCreateChange(0, 2, 0, 0, 0),
             newDeleteChange(0, 1)>>)

\* the last record whole, absent, cut short, or with one byte raised by one
TrailerMenu ==
    {SubSeq(LastRecord, 1, k) : k \in 0..Len(LastRecord)}
    \cup {[LastRecord EXCEPT ![i] = (@ + 1) % 256] : i \in 1..Len(LastRecord)}

ManifestFiles ==
    {h \o r : h \in HeaderMenu, r \in {<<>>, FirstRecord}}
    \cup {ManifestHeader \o FirstRecord \o t : t \in TrailerMenu}

ReplayInit ==
    /\ disk \in {<<>>} \cup {ManifestFilename :> f : f \in ManifestFiles}
    /\ phase = "closed"
    /\ mfManifest = createManifest
    /\ opened = NoOpen
    /\ nextFileId = <<>>
    /\ lastErr = Nil
    /\ workload = "mixed"
    /\ nOps = 0
    /\ ref = createManifest
    /\ clean = FALSE
    /\ crashCtx = NoCrash
    /\ created = {}
    /\ reused = FALSE
    /\ rewritten = FALSE

NextReplay ==
    \/ OpenManifest
    \/ NewLevelsController
    \/ CloseManifest

\* C13: ReplayManifestFile rejects a bad header and produces no manifest:
\* ErrBadMagic when the first 4 bytes are not "!Bgr" or fewer than 8 header
\* bytes can be read, ErrBadManifestVersion when the magic is right and the
\* 4-byte version is not 0x01092017.
C13_BadHeaderRejected ==
    (opened # NoOpen /\ ManifestFilename \in DOMAIN disk) =>
        LET f == disk[ManifestFilename]
            badMagic == Len(f) < 8 \/ SubSeq(f, 1, 4) # <<33, 66, 103, 114>>
            badVersion == ~badMagic /\ SubSeq(f, 5, 8) # <<1, 9, 32, 23>>
        IN /\ badMagic => /\ opened.err = "errBadMagic"
                          /\ opened.manifest = createManifest
                          /\ phase = "closed"
           /\ badVersion => /\ opened.err = "ErrBadManifestVersion"
                            /\ opened.manifest = createManifest
                            /\ phase = "closed"
           /\ (opened.err \in {"errBadMagic", "ErrBadManifestVersion"}) =>
                  (badMagic \/ badVersion)

\* a file with the right magic, version 0 and a record behind it was opened
C13_Witness ==
    /\ opened.err = "ErrBadManifestVersion"
    /\ ManifestFilename \in DOMAIN disk
    /\ disk[ManifestFilename] = <<33, 66, 103, 114, 1, 9, 32, 0>> \o FirstRecord
    /\ phase = "closed"

\* where the whole records with a matching checksum end, from offset on
RECURSIVE GoodEnd(_, _)
GoodEnd(f, offset) ==
    IF Len(f) - offset < 8 THEN offset
    ELSE LET length == Uint32(SubSeq(f, offset + 1, offset + 4))
             whole == Len(f) - offset - 8 >= length
         IN IF whole /\ Checksum32(SubSeq(f, offset + 9, offset + 8 + length))
                           = Uint32(SubSeq(f, offset + 5, offset + 8))
            THEN GoodEnd(f, offset + 8 + length)
            ELSE offset

\* the file has a good header and bytes behind its last good record
TrailingRecordBad(f) ==
    /\ Len(f) >= 8
    /\ SubSeq(f, 1, 8) = ManifestHeader
    /\ GoodEnd(f, 8) < Len(f)

\* C14: in read-write mode, opening a manifest whose trailing record is
\* corrupt or only partially written succeeds: the trailing record is dropped,
\* the manifest reflects all earlier records, and the file is truncated to the
\* end of the last good record.
C14_TrailingRecordDropped ==
    [][(/\ phase = "closed"
        /\ ManifestFilename \in DOMAIN disk
        /\ TrailingRecordBad(disk[ManifestFilename]))
       => LET f == disk[ManifestFilename]
              good == SubSeq(f, 1, GoodEnd(f, 8))
          IN /\ phase' = "replayed"
             /\ opened'.err = Nil
             /\ opened'.manifest = ReplayManifestFile(good).manifest
             /\ disk'[ManifestFilename] = good]_manifestVars

(***************************************************************************)
(* Timestamped keys (z/z.go).                                              *)
(***************************************************************************)
\* bytes.Compare
BytesCompare(a, b) ==
    LET common == IF Len(a) < Len(b) THEN Len(a) ELSE Len(b)
        diff == {i \in 1..common : a[i] # b[i]}
    IN IF diff # {}
       THEN LET first == CHOOSE i \in diff : \A j \in diff : i <= j
            IN IF a[first] < b[first] THEN -1 ELSE 1
       ELSE IF Len(a) < Len(b) THEN -1
       ELSE IF Len(a) > Len(b) THEN 1
       ELSE 0

\* CompareKeys that compares the whole keys as bytes
CompareKeys_WholeKey(key1, key2) ==
    BytesCompare(key1, key2)

CompareKeys(key1, key2) ==
    LET cmp == BytesCompare(SubSeq(key1, 1, Len(key1) - 8), SubSeq(key2, 1, Len(key2) - 8))
    IN IF cmp # 0 THEN cmp
       ELSE BytesCompare(SubSeq(key1, Len(key1) - 7, Len(key1)),
                         SubSeq(key2, Len(key2) - 7, Len(key2)))

\* math.MaxUint64 - ts has the complement of each byte of ts
KeyWithTs(key, ts) ==
    key \o [i \in 1..8 |-> 255 - PutUint64(ts)[i]]

ParseKey(key) ==
    SubSeq(key, 1, Len(key) - 8)

ParseTs(key) ==
    IF Len(key) <= 8 THEN 0
    ELSE Uint64([i \in 1..8 |-> 255 - key[Len(key) - 8 + i]])

SameKey(src, dst) ==
    IF Len(src) # Len(dst) THEN FALSE
    ELSE ParseKey(src) = ParseKey(dst)

(***************************************************************************)
(* The skiplist (skiplist/skiplist.go).  Offset 0 is nil.                  *)
(***************************************************************************)
\* goroutines that call SkipList.Put, and one Put call explored for each
Writers == {1, 2}
MaxPuts == Cardinality(Writers)
UserKeys == {<<>>, <<97>>, <<97, 98>>}
Timestamps == 1..MaxTs

\* offset of the head node, the first node NewSkiplist allocates
head == 1

\* z.ValueStruct: the value bytes and the version, which the arena does not store
ValueStruct(value, version) ==
    [Value |-> value, Version |-> version]

newNode(key, value, h) ==
    [key |-> key, value |-> value, height |-> h, tower |-> [l \in 0..(h - 1) |-> 0]]

getNext(n, h) ==
    nodes[n].tower[h]

setValue(ns, n, value) ==
    [ns EXCEPT ![n].value = value]

\* A store in place of the compare-and-swap.
casNextOffset_Store(ns, n, h, old, val) ==
    [swapped |-> TRUE, nodes |-> [ns EXCEPT ![n].tower[h] = val]]

casNextOffset(ns, n, h, old, val) ==
    IF ns[n].tower[h] = old
    THEN [swapped |-> TRUE, nodes |-> [ns EXCEPT ![n].tower[h] = val]]
    ELSE [swapped |-> FALSE, nodes |-> ns]

\* findSpliceForLevel that takes an equal key for a greater one
findSpliceForLevel_NoEqual(key, before, level) ==
    LET next == getNext(before, level)
    IN IF next = 0
       THEN [found |-> TRUE, outBefore |-> before, outAfter |-> next]
       ELSE IF CompareKeys(key, nodes[next].key) <= 0
       THEN [found |-> TRUE, outBefore |-> before, outAfter |-> next]
       ELSE [found |-> FALSE, outBefore |-> next, outAfter |-> 0]

\* One turn of findSpliceForLevel's loop.
findSpliceForLevel(key, before, level) ==
    LET next == getNext(before, level)
    IN IF next = 0
       THEN [found |-> TRUE, outBefore |-> before, outAfter |-> next]
       ELSE LET cmp == CompareKeys(key, nodes[next].key)
            IN IF cmp = 0 THEN [found |-> TRUE, outBefore |-> next, outAfter |-> next]
               ELSE IF cmp < 0 THEN [found |-> TRUE, outBefore |-> before, outAfter |-> next]
               ELSE [found |-> FALSE, outBefore |-> next, outAfter |-> 0]

RECURSIVE findNearFrom(_, _, _, _, _)
findNearFrom(key, less, allowEqual, x, level) ==
    LET next == getNext(x, level)
        back == IF x = head THEN [node |-> 0, eq |-> FALSE] ELSE [node |-> x, eq |-> FALSE]
    IN IF next = 0
       THEN IF level > 0 THEN findNearFrom(key, less, allowEqual, x, level - 1)
            ELSE IF ~less THEN [node |-> 0, eq |-> FALSE]
            ELSE back
       ELSE LET cmp == CompareKeys(key, nodes[next].key)
            IN IF cmp > 0 THEN findNearFrom(key, less, allowEqual, next, level)
               ELSE IF cmp = 0
               THEN IF allowEqual THEN [node |-> next, eq |-> TRUE]
                    ELSE IF ~less THEN [node |-> getNext(next, 0), eq |-> FALSE]
                    ELSE IF level > 0 THEN findNearFrom(key, less, allowEqual, x, level - 1)
                    ELSE back
               ELSE IF level > 0 THEN findNearFrom(key, less, allowEqual, x, level - 1)
               ELSE IF ~less THEN [node |-> next, eq |-> FALSE]
               ELSE back

findNear(key, less, allowEqual) ==
    findNearFrom(key, less, allowEqual, head, height - 1)

Get(key) ==
    LET n == findNear(key, FALSE, TRUE).node
    IN IF n = 0 THEN ValueStruct(<<>>, 0)
       ELSE IF ~SameKey(key, nodes[n].key) THEN ValueStruct(<<>>, 0)
       ELSE ValueStruct(nodes[n].value, ParseTs(nodes[n].key))

\* The keys Iterator.SeekToFirst and then Next visit until Valid is false; a
\* list of more nodes than the arena holds is cut.
RECURSIVE iterateFrom(_, _)
iterateFrom(n, fuel) ==
    IF n = 0 \/ fuel = 0 THEN <<>>
    ELSE <<nodes[n].key>> \o iterateFrom(getNext(n, 0), fuel - 1)

SeekToFirstNext ==
    iterateFrom(getNext(head, 0), Len(nodes) + 1)

(***************************************************************************)
(* SkipList.Put, one atomic load or compare-and-swap at a time.            *)
(***************************************************************************)
\* what the operations on the skiplist leave alone
nonSkiplistVars ==
    <<manifestVars, lockVars, startupVars, componentVars>>

NoLevels == [l \in 0..MaxNodeHeight |-> 0]

IdlePut ==
    [pc |-> "idle", ctx |-> "none", key |-> <<>>, value |-> <<>>, ts |-> 0, listHeight |-> 0,
     prev |-> NoLevels, next |-> NoLevels, i |-> 0, height |-> 0, x |-> 0, before |-> 0]

SkiplistInit ==
    /\ nodes = <<newNode(<<>>, <<>>, maxHeight)>>
    /\ height = 1
    /\ put = [w \in Writers |-> IdlePut]
    /\ nPuts = 0
    /\ completed = {}

\* Put returns
PutReturn(w) ==
    /\ put' = [put EXCEPT ![w] = IdlePut]
    /\ completed' = completed \cup {[key |-> ParseKey(put[w].key), ts |-> put[w].ts,
                                     value |-> put[w].value]}

\* Put that does not set prev[listHeight] to the head
PutBegin_NoHead(w, userKey, ts) ==
    /\ put[w].pc = "idle"
    /\ nPuts < MaxPuts
    /\ nPuts' = nPuts + 1
    /\ put' = [put EXCEPT ![w] =
                  [IdlePut EXCEPT !.pc = "splice", !.ctx = "down",
                                  !.key = KeyWithTs(userKey, ts), !.ts = ts,
                                  !.value = <<nPuts + 1>>,
                                  !.listHeight = height,
                                  !.i = height - 1,
                                  !.before = head]]
    /\ UNCHANGED <<nodes, height, completed>>
    /\ UNCHANGED nonSkiplistVars

\* Put(KeyWithTs(userKey, ts), value) up to the first findSpliceForLevel
PutBegin(w, userKey, ts) ==
    /\ put[w].pc = "idle"
    /\ nPuts < MaxPuts
    /\ nPuts' = nPuts + 1
    /\ put' = [put EXCEPT ![w] =
                  [IdlePut EXCEPT !.pc = "splice", !.ctx = "down",
                                  !.key = KeyWithTs(userKey, ts), !.ts = ts,
                                  !.value = <<nPuts + 1>>,
                                  !.listHeight = height,
                                  !.prev = [NoLevels EXCEPT ![height] = head],
                                  !.i = height - 1,
                                  !.before = head]]
    /\ UNCHANGED <<nodes, height, completed>>
    /\ UNCHANGED nonSkiplistVars

\* One turn of the loop of findSpliceForLevel, and what Put does with its
\* result: on the way down (ctx "down"), for a level above the old list
\* height (ctx "above"), or after a failed compare-and-swap (ctx "retry").
PutFindSplice(w) ==
    /\ put[w].pc = "splice"
    /\ LET t == put[w]
           r == findSpliceForLevel(t.key, t.before, t.i)
           t1 == [t EXCEPT !.prev[t.i] = r.outBefore, !.next[t.i] = r.outAfter]
           same == r.outBefore = r.outAfter
       IN IF ~r.found
          THEN /\ put' = [put EXCEPT ![w].before = r.outBefore]
               /\ UNCHANGED <<nodes, completed>>
          ELSE IF same /\ (t.ctx = "down" \/ (t.ctx = "retry" /\ t.i = 0))
          THEN /\ nodes' = setValue(nodes, r.outBefore, t.value)
               /\ PutReturn(w)
          ELSE IF same
          THEN /\ put' = [put EXCEPT ![w].pc = "panic"]
               /\ UNCHANGED <<nodes, completed>>
          ELSE IF t.ctx = "down" /\ t.i > 0
          THEN /\ put' = [put EXCEPT ![w] = [t1 EXCEPT !.i = t.i - 1, !.before = r.outBefore]]
               /\ UNCHANGED <<nodes, completed>>
          ELSE IF t.ctx = "down"
          THEN /\ put' = [put EXCEPT ![w] = [t1 EXCEPT !.pc = "newNode"]]
               /\ UNCHANGED <<nodes, completed>>
          ELSE /\ put' = [put EXCEPT ![w] = [t1 EXCEPT !.pc = "link"]]
               /\ UNCHANGED <<nodes, completed>>
    /\ UNCHANGED <<height, nPuts>>
    /\ UNCHANGED nonSkiplistVars

\* randomHeight draws h; newNode; the load of the list height
PutNewNode(w, h) ==
    /\ put[w].pc = "newNode"
    /\ nodes' = Append(nodes, newNode(put[w].key, put[w].value, h))
    /\ put' = [put EXCEPT ![w].height = h, ![w].x = Len(nodes) + 1,
                          ![w].listHeight = height, ![w].pc = "raise"]
    /\ UNCHANGED <<height, nPuts, completed>>
    /\ UNCHANGED nonSkiplistVars

\* One turn of the loop that raises the list height.
PutRaiseHeight(w) ==
    /\ put[w].pc = "raise"
    /\ IF put[w].height > put[w].listHeight
       THEN IF height = put[w].listHeight
            THEN /\ height' = put[w].height
                 /\ put' = [put EXCEPT ![w].pc = "link", ![w].i = 0]
            ELSE /\ put' = [put EXCEPT ![w].listHeight = height]
                 /\ UNCHANGED height
       ELSE /\ put' = [put EXCEPT ![w].pc = "link", ![w].i = 0]
            /\ UNCHANGED height
    /\ UNCHANGED <<nodes, nPuts, completed>>
    /\ UNCHANGED nonSkiplistVars

\* One turn of the inner loop that links the new node at level i.
PutLink(w) ==
    /\ put[w].pc = "link"
    /\ LET t == put[w]
           cas == casNextOffset([nodes EXCEPT ![t.x].tower[t.i] = t.next[t.i]],
                                t.prev[t.i], t.i, t.next[t.i], t.x)
       IN IF t.prev[t.i] = 0
          THEN /\ put' = IF t.i > 1
                         THEN [put EXCEPT ![w].pc = "splice", ![w].ctx = "above",
                                          ![w].before = head]
                         ELSE [put EXCEPT ![w].pc = "panic"]
               /\ UNCHANGED <<nodes, completed>>
          ELSE IF ~cas.swapped
          THEN /\ nodes' = cas.nodes
               /\ put' = [put EXCEPT ![w].pc = "splice", ![w].ctx = "retry",
                                     ![w].before = t.prev[t.i]]
               /\ UNCHANGED completed
          ELSE IF t.i + 1 < t.height
          THEN /\ nodes' = cas.nodes
               /\ put' = [put EXCEPT ![w].i = t.i + 1]
               /\ UNCHANGED completed
          ELSE /\ nodes' = cas.nodes
               /\ PutReturn(w)
    /\ UNCHANGED <<height, nPuts>>
    /\ UNCHANGED nonSkiplistVars

NextSkiplist ==
    \/ \E w \in Writers, userKey \in UserKeys, ts \in Timestamps : PutBegin(w, userKey, ts)
    \/ \E w \in Writers : PutFindSplice(w)
    \/ \E w \in Writers, h \in 1..MaxNodeHeight : PutNewNode(w, h)
    \/ \E w \in Writers : PutRaiseHeight(w)
    \/ \E w \in Writers : PutLink(w)

(***************************************************************************)
(* Properties of the skiplist.                                             *)
(***************************************************************************)
\* every Put that was called has returned
Quiescent ==
    \A w \in Writers : put[w].pc = "idle"

DistinctKeysPut ==
    Cardinality({<<p.key, p.ts>> : p \in completed}) = nPuts

\* C4: once the Puts have returned, a Get of user key k at a timestamp no
\* Put exceeds returns the empty value when k was never put, and otherwise a
\* value put for the highest timestamp of k, with Version that timestamp.
C4_GetReturnsLatest ==
    Quiescent =>
        \A k \in UserKeys :
            LET versions == {p \in completed : p.key = k}
                latest == MaxOf({p.ts : p \in versions})
                got == Get(KeyWithTs(k, MaxTs))
            IN IF versions = {} THEN got = ValueStruct(<<>>, 0)
               ELSE /\ got.Version = latest
                    /\ got.Value \in {p.value : p \in {q \in versions : q.ts = latest}}

\* C5: no assertion of Put fails, and once Puts of pairwise distinct keys
\* have returned, Get finds every key with the value put for it and
\* SeekToFirst/Next visits exactly the keys put, each once, in ascending order.
C5_NoInsertLost ==
    /\ \A w \in Writers : put[w].pc # "panic"
    /\ (Quiescent /\ DistinctKeysPut) =>
          /\ \A p \in completed :
                /\ Get(KeyWithTs(p.key, p.ts)).Value = p.value
                /\ Cardinality({i \in 1..Len(SeekToFirstNext) :
                                   SeekToFirstNext[i] = KeyWithTs(p.key, p.ts)}) = 1
          /\ Len(SeekToFirstNext) = nPuts
          /\ \A i \in 1..(Len(SeekToFirstNext) - 1) :
                CompareKeys(SeekToFirstNext[i], SeekToFirstNext[i + 1]) < 0

\* C5 witness: two Puts of distinct keys have returned, and they overlapped:
\* the one called second allocated its node first; the list grew to height 3.
C5_Witness ==
    /\ Quiescent
    /\ DistinctKeysPut
    /\ nPuts = 2
    /\ Len(nodes) = 3
    /\ nodes[2].value = <<2>>
    /\ height = 3

(***************************************************************************)
(* The directory lock (dir_unix.go).                                       *)
(***************************************************************************)
Openers == 1..NumOpeners

ErrDirectoryInUse ==
    "cannot acquire directory lock on: another process is using this database"
ErrPidFile == "cannot write process id file"

IdleGuard == [pc |-> "idle", readOnly |-> FALSE, err |-> Nil]

\* what the operations on the lock leave alone
nonLockVars ==
    <<manifestVars, skiplistVars, startupVars, componentVars>>

LockInit ==
    /\ flocks = <<>>
    /\ guards = [h \in Openers |-> IdleGuard]
    /\ pidFile = 0

\* A guard that asks for a shared lock whatever the mode.
lockOptions_Shared(readOnly) ==
    "LOCK_SH"

\* the options acquireDirectoryLock passes to flock, LOCK_NB being in both
lockOptions(readOnly) ==
    IF readOnly THEN "LOCK_SH" ELSE "LOCK_EX"

\* flock(2) with LOCK_NB on the open file description h
Flock(held, h, options) ==
    LET others == (DOMAIN held) \ {h}
        blocked == IF options = "LOCK_EX" THEN others # {}
                   ELSE \E o \in others : held[o] = "LOCK_EX"
    IN IF blocked THEN [ok |-> FALSE, held |-> held]
       ELSE [ok |-> TRUE,
             held |-> [o \in others \cup {h} |-> IF o = h THEN options ELSE held[o]]]

\* close(2) of the open file description h drops its flock
CloseDir(held, h) ==
    [o \in (DOMAIN held) \ {h} |-> held[o]]

\* acquireDirectoryLock(directory, lockFileName, readOnly): os.Open
AcquireOpen(h, readOnly) ==
    /\ guards[h].pc \in {"idle", "failed"}
    /\ guards' = [guards EXCEPT ![h] = [pc |-> "opened", readOnly |-> readOnly, err |-> Nil]]
    /\ UNCHANGED <<flocks, pidFile>>
    /\ UNCHANGED nonLockVars

\* acquireDirectoryLock: unix.Flock; a read-only guard is returned right after
AcquireFlock(h) ==
    /\ guards[h].pc = "opened"
    /\ LET r == Flock(flocks, h, lockOptions(guards[h].readOnly))
       IN IF ~r.ok
          THEN /\ flocks' = CloseDir(flocks, h)
               /\ guards' = [guards EXCEPT ![h].pc = "failed", ![h].err = ErrDirectoryInUse]
          ELSE /\ flocks' = r.held
               /\ guards' = [guards EXCEPT ![h].pc =
                                IF guards[h].readOnly THEN "held" ELSE "locked"]
    /\ UNCHANGED pidFile
    /\ UNCHANGED nonLockVars

\* acquireDirectoryLock: ioutil.WriteFile of the pid file, which may fail
AcquireWritePid(h) ==
    /\ guards[h].pc = "locked"
    /\ \/ /\ pidFile' = h
          /\ guards' = [guards EXCEPT ![h].pc = "held"]
          /\ UNCHANGED flocks
       \/ /\ flocks' = CloseDir(flocks, h)
          /\ guards' = [guards EXCEPT ![h].pc = "failed", ![h].err = ErrPidFile]
          /\ UNCHANGED pidFile
    /\ UNCHANGED nonLockVars

\* directoryLockGuard.release: os.Remove of the pid file
ReleaseRemovePid(h) ==
    /\ guards[h].pc = "held"
    /\ ~guards[h].readOnly
    /\ pidFile' = 0
    /\ guards' = [guards EXCEPT ![h].pc = "closing"]
    /\ UNCHANGED flocks
    /\ UNCHANGED nonLockVars

\* directoryLockGuard.release: guard.file.Close
ReleaseClose(h) ==
    /\ \/ guards[h].pc = "closing"
       \/ guards[h].pc = "held" /\ guards[h].readOnly
    /\ flocks' = CloseDir(flocks, h)
    /\ guards' = [guards EXCEPT ![h] = IdleGuard]
    /\ UNCHANGED pidFile
    /\ UNCHANGED nonLockVars

NextLock ==
    \/ \E h \in Openers, readOnly \in BOOLEAN : AcquireOpen(h, readOnly)
    \/ \E h \in Openers : AcquireFlock(h)
    \/ \E h \in Openers : AcquireWritePid(h)
    \/ \E h \in Openers : ReleaseRemovePid(h)
    \/ \E h \in Openers : ReleaseClose(h)

\* the guards that hold the directory: their flock is taken and not dropped
ReadWriteHolders ==
    {h \in Openers : guards[h].pc \in {"locked", "held", "closing"} /\ ~guards[h].readOnly}

ReadOnlyHolders ==
    {h \in Openers : guards[h].pc = "held" /\ guards[h].readOnly}

\* C6: a directory has at most one read-write holder and then no read-only
\* holder, or only read-only holders; and the flock step of an acquire ends
\* at once, with the "another process is using this database" error exactly
\* when a holder stands in its way.
C6_DirectoryLockExclusion ==
    /\ [](/\ Cardinality(ReadWriteHolders) <= 1
          /\ ReadWriteHolders # {} => ReadOnlyHolders = {})
    /\ [][\A h \in Openers :
            (guards[h].pc = "opened" /\ guards'[h] # guards[h]) =>
                IF \/ (ReadWriteHolders \ {h}) # {}
                   \/ ~guards[h].readOnly /\ (ReadOnlyHolders \ {h}) # {}
                THEN guards'[h].pc = "failed" /\ guards'[h].err = ErrDirectoryInUse
                ELSE guards'[h].pc \in {"locked", "held"}]_lockVars

\* C6 witness: two read-only holders, and a read-write acquire that failed
\* on them.
C6_Witness ==
    /\ Cardinality(ReadOnlyHolders) = 2
    /\ \E h \in Openers : guards[h].pc = "failed" /\ guards[h].err = ErrDirectoryInUse
                          /\ ~guards[h].readOnly

(***************************************************************************)
(* Table file names (table/table.go).  A name is its sequence of           *)
(* characters.                                                             *)
(***************************************************************************)
TableFileExtension == <<46, 115, 115, 116>>

\* the digit fmt prints for %X
HexDigit(n) ==
    IF n < 10 THEN 48 + n ELSE 55 + n

\* the value encoding/hex gives a character, -1 when it is no digit
HexValue(c) ==
    IF c \in 48..57 THEN c - 48
    ELSE IF c \in 65..70 THEN c - 55
    ELSE IF c \in 97..102 THEN c - 87
    ELSE -1

HexString(bytes) ==
    [i \in 1..(2 * Len(bytes)) |->
        HexDigit(IF i % 2 = 1 THEN bytes[(i + 1) \div 2] \div 16 ELSE bytes[i \div 2] % 16)]

DecodeString(str) ==
    [i \in 1..(Len(str) \div 2) |-> 16 * HexValue(str[2 * i - 1]) + HexValue(str[2 * i])]

IdToFileName(partitionId, fileId) ==
    HexString(PutUint32(partitionId)) \o HexString(PutUint64(fileId)) \o TableFileExtension

\* the directory being left out of the path
NewFilename(partitionId, fileId) ==
    IdToFileName(partitionId, fileId)

\* path.Base: the last element of the path, trailing slashes dropped
pathBase(path) ==
    LET end == MaxOf({0} \cup {i \in 1..Len(path) : path[i] # 47})
        slash == MaxOf({0} \cup {i \in 1..end : path[i] = 47})
    IN IF path = <<>> THEN <<46>>
       ELSE IF end = 0 THEN <<47>>
       ELSE SubSeq(path, slash + 1, end)

\* ParseFileId that takes a stem of 24 characters or more
ParseFileId_LongStem(path) ==
    LET bad == [partitionId |-> 0, fileId |-> 0, ok |-> FALSE]
        name == pathBase(path)
        stem == SubSeq(name, 1, Len(name) - Len(TableFileExtension))
    IN IF \/ Len(name) < Len(TableFileExtension)
          \/ SubSeq(name, Len(name) - Len(TableFileExtension) + 1, Len(name))
                # TableFileExtension
       THEN bad
       ELSE IF Len(stem) < TableFileNameLength THEN bad
       ELSE IF \E i \in 1..24 : HexValue(stem[i]) < 0 THEN bad
       ELSE [partitionId |-> Uint32(DecodeString(SubSeq(stem, 1, 8))),
             fileId |-> Uint64(DecodeString(SubSeq(stem, 9, 24))),
             ok |-> TRUE]

ParseFileId(path) ==
    LET bad == [partitionId |-> 0, fileId |-> 0, ok |-> FALSE]
        name == pathBase(path)
        stem == SubSeq(name, 1, Len(name) - Len(TableFileExtension))
    IN IF \/ Len(name) < Len(TableFileExtension)
          \/ SubSeq(name, Len(name) - Len(TableFileExtension) + 1, Len(name))
                # TableFileExtension
       THEN bad
       ELSE IF Len(stem) # TableFileNameLength THEN bad
       ELSE IF \E i \in 1..8 : HexValue(stem[i]) < 0 THEN bad
       ELSE IF \E i \in 9..24 : HexValue(stem[i]) < 0 THEN bad
       ELSE [partitionId |-> Uint32(DecodeString(SubSeq(stem, 1, 8))),
             fileId |-> Uint64(DecodeString(SubSeq(stem, 9, 24))),
             ok |-> TRUE]

(***************************************************************************)
(* Startup of the level controller.                                        *)
(***************************************************************************)
getFileIdMap(files) ==
    LET parsed == {r \in {ParseFileId(name) : name \in files} : r.ok}
    IN [p \in {r.partitionId : r \in parsed} |->
           {r.fileId : r \in {q \in parsed : q.partitionId = p}}]

ErrFileDoesNotExist(id) ==
    <<"file does not exist for table", id>>

\* A reconciliation that does not look for the files of the manifest's tables.
revertToManifest_NoCheck(manifest, idMap, files) ==
    {[err |-> Nil,
      files |-> files \ UNION {{NewFilename(p, id) : id \in idMap[p]}
                                  : p \in (DOMAIN idMap) \ (DOMAIN manifest.Partitions)}]}

\* A reconciliation that removes nothing.
revertToManifest_KeepsFiles(manifest, idMap, files) ==
    LET missing == {pair \in TableKeys(manifest) :
                       ~(pair[1] \in DOMAIN idMap /\ pair[2] \in idMap[pair[1]])}
    IN IF missing # {}
       THEN {[err |-> ErrFileDoesNotExist(pair[2]), files |-> files] : pair \in missing}
       ELSE {[err |-> Nil, files |-> files]}

\* A reconciliation that removes the excess files before it looks for the
\* files of the manifest's tables.
revertToManifest_RemovesFirst(manifest, idMap, files) ==
    LET missing == {pair \in TableKeys(manifest) :
                       ~(pair[1] \in DOMAIN idMap /\ pair[2] \in idMap[pair[1]])}
        kept == files \ UNION {{NewFilename(p, id) : id \in idMap[p]}
                                  : p \in (DOMAIN idMap) \ (DOMAIN manifest.Partitions)}
    IN IF missing # {}
       THEN {[err |-> ErrFileDoesNotExist(pair[2]), files |-> kept] : pair \in missing}
       ELSE {[err |-> Nil, files |-> kept]}

\* What revertToManifest may return and the files it leaves, os.Remove not
\* failing: the two maps are ranged over in any order, so the error names any
\* of the missing tables.
revertToManifest(manifest, idMap, files) ==
    LET missing == {pair \in TableKeys(manifest) :
                       ~(pair[1] \in DOMAIN idMap /\ pair[2] \in idMap[pair[1]])}
    IN IF missing # {}
       THEN {[err |-> ErrFileDoesNotExist(pair[2]), files |-> files] : pair \in missing}
       ELSE {[err |-> Nil,
              files |-> files \ UNION {{NewFilename(p, id) : id \in idMap[p]}
                                          : p \in (DOMAIN idMap) \ (DOMAIN manifest.Partitions)}]}

\* maxFileIds of newLevelsController
maxFileIds(manifest) ==
    [p \in DOMAIN manifest.Partitions |-> MaxOf((DOMAIN manifest.Partitions[p].Tables) \cup {0})]

\* what the operations of a startup leave alone
nonStartupVars ==
    <<manifestVars, skiplistVars, lockVars, componentVars>>

ManifestName == <<77, 65, 78, 73, 70, 69, 83, 84>>

\* the names a directory listing is drawn from
DirectoryNames ==
    {IdToFileName(0, 1), IdToFileName(0, MaxTableId), IdToFileName(1, 1),
     IdToFileName(1, OrphanId), ManifestName}

StartupTables == {<<0, 1>>, <<0, MaxTableId>>, <<1, 1>>}

\* The manifest that creating the tables of T gives, after which partition 1
\* may have been left without tables.
StartupManifest(T, emptied) ==
    LET creates == CHOOSE order \in Orderings({newCreateChange(pair[1], pair[2], 0, 0, 0)
                                                  : pair \in T}) : TRUE
        churn == IF emptied THEN <<newCreateChange(1, 1, 0, 0, 0), newDeleteChange(1, 1)>>
                 ELSE <<>>
    IN applyChangeSet(createManifest, creates \o churn).m

StartupInit ==
    /\ stReadOnly \in BOOLEAN
    /\ dirFiles \in SUBSET DirectoryNames
    /\ stManifest \in {StartupManifest(T, emptied) :
                          T \in SUBSET StartupTables, emptied \in BOOLEAN}
    /\ stPc = "start"
    /\ stErr = Nil
    /\ stPartitions = <<>>
    /\ stRemoved = {}

\* newLevelsController up to the return of revertToManifest
RevertToManifest ==
    /\ stPc = "start"
    /\ \E r \in revertToManifest(stManifest, getFileIdMap(dirFiles), dirFiles) :
          /\ dirFiles' = r.files
          /\ stRemoved' = dirFiles \ r.files
          /\ stErr' = r.err
          /\ stPc' = IF r.err = Nil THEN "reverted" ELSE "error"
    /\ stPartitions' = (0 :> 0)
    /\ UNCHANGED <<stManifest, stReadOnly>>
    /\ UNCHANGED nonStartupVars

\* newLevelsController after revertToManifest, every table that is opened
\* being sound: a table whose file is not there fails the startup, and storing
\* nextFileId for a partition that was not set up is a nil dereference.
OpenTables ==
    /\ stPc = "reverted"
    /\ LET absent == {pair \in TableKeys(stManifest) :
                         NewFilename(pair[1], pair[2]) \notin dirFiles}
       IN IF absent # {}
          THEN /\ stPc' = "error"
               /\ \E pair \in absent : stErr' = <<"opening file", pair[2]>>
               /\ UNCHANGED stPartitions
          ELSE IF DOMAIN maxFileIds(stManifest) \subseteq DOMAIN stPartitions
          THEN /\ stPc' = "ok"
               /\ stPartitions' = [p \in DOMAIN stPartitions |->
                                      IF p \in DOMAIN maxFileIds(stManifest)
                                      THEN maxFileIds(stManifest)[p] + 1
                                      ELSE stPartitions[p]]
               /\ UNCHANGED stErr
          ELSE /\ stPc' = "panic"
               /\ UNCHANGED <<stErr, stPartitions>>
    /\ UNCHANGED <<dirFiles, stManifest, stRemoved, stReadOnly>>
    /\ UNCHANGED nonStartupVars

NextStartup ==
    \/ RevertToManifest
    \/ OpenTables

(***************************************************************************)
(* Properties of a startup.                                                *)
(***************************************************************************)
\* the (partition, table) pairs of the table files in the directory
TableFilesOnDisk ==
    {<<r.partitionId, r.fileId>> : r \in {q \in {ParseFileId(name) : name \in dirFiles} : q.ok}}

\* the manifest's tables without a file; no startup creates or removes the
\* file of a table of the manifest
MissingTables ==
    {pair \in TableKeys(stManifest) : NewFilename(pair[1], pair[2]) \notin dirFiles}

\* C7: once revertToManifest has returned nil, the table files in the
\* directory are those of the tables of the manifest.
C7_FilesEqualManifest ==
    stPc \in {"reverted", "ok", "panic"} => TableFilesOnDisk = TableKeys(stManifest)

\* C8: a startup whose manifest has a table without a file ends with the
\* error "file does not exist for table <fileId>", for one such table.
C8_MissingFileError ==
    (stPc # "start" /\ MissingTables # {}) =>
        /\ stPc = "error"
        /\ \E pair \in MissingTables : stErr = ErrFileDoesNotExist(pair[2])

\* C8 witness: table 7 of partition 0 has no file and the startup ended with
\* the error that names it.
C8_Witness ==
    /\ stPc = "error"
    /\ stErr = ErrFileDoesNotExist(MaxTableId)
    /\ <<0, MaxTableId>> \in MissingTables

nonLevelVars ==
    <<storageVars, throttleVars, openVars, refVars, closerVars, rangeVars, configVars, codecVars, appendVars, tableVars>>

Levels == {0, 1, 2}
\* keys of the tables handed to a level: a@2 < a@1 < b@1 under CompareKeys
TableKeyMenu == {KeyWithTs(<<97>>, 2), KeyWithTs(<<97>>, 1), KeyWithTs(<<98>>, 1)}

\* sizes of the files of the tables handed to a level
TableSizeMenu == {4096, 65536}

Table(fileId, smallest, largest, size) ==
    [fileId |-> fileId, smallest |-> smallest, largest |-> largest, size |-> size]

\* the file ids and keys of the slices of at most MaxLevelTables tables, file
\* ids distinct
TableSlices ==
    UNION {{[i \in 1..n |-> <<ids[i], ks[i][1], ks[i][2]>>]
            : ids \in Orderings(1..n), ks \in [1..n -> TableKeyMenu \X TableKeyMenu]}
           : n \in 0..MaxLevelTables}

\* the tables of a slice, of the given sizes
TablesOfSizes(slice, sizes) ==
    [i \in 1..Len(slice) |-> Table(slice[i][1], slice[i][2], slice[i][3], sizes[i])]

\* Table.Size(): the size of the table's file
Size(t) ==
    t.size

\* the loop of initTables over the tables, l.totalSize += t.Size()
RECURSIVE totalSize(_)
totalSize(tables) ==
    IF tables = <<>> THEN 0
    ELSE totalSize(SubSeq(tables, 1, Len(tables) - 1)) + Size(tables[Len(tables)])

\* the less of initTables at level 0: by file id
lessByFileId(a, b) ==
    a.fileId < b.fileId

\* a less that compares the largest keys
lessBySmallest_Largest(a, b) ==
    CompareKeys(a.largest, b.largest) < 0

\* the less of initTables at the other levels: by smallest key
lessBySmallest(a, b) ==
    CompareKeys(a.smallest, b.smallest) < 0

\* sort.Slice(tables, less) with the less of the level: some ordering of the
\* slice that less does not contradict (the sort is not stable)
sortSlice(tables, level) ==
    LET less(a, b) == IF level = 0 THEN lessByFileId(a, b) ELSE lessBySmallest(a, b)
        n == Len(tables)
        lt == [i \in 1..n |-> [j \in 1..n |-> less(tables[i], tables[j])]]
    IN {[i \in 1..n |-> tables[p[i]]]
        : p \in {q \in Orderings(1..n)
                 : \A i, j \in 1..n : i < j => ~lt[q[j]][q[i]]}}

\* levelHandler.validate; j counts as in the code, from 1 over a slice indexed from 0
validate(level, tables) ==
    IF level = 0 THEN Nil
    ELSE LET inter(j) == CompareKeys(tables[j].largest, tables[j + 1].smallest) >= 0
             intra(j) == CompareKeys(tables[j + 1].smallest, tables[j + 1].largest) > 0
             failing == {j \in 1..(Len(tables) - 1) : inter(j) \/ intra(j)}
         IN IF failing = {} THEN Nil
            ELSE LET j == CHOOSE x \in failing : \A y \in failing : x <= y
                 IN IF inter(j) THEN <<"inter", level, j, Len(tables)>>
                    ELSE <<"intra", level, j, Len(tables)>>

LevelInit ==
    /\ lhLevel \in Levels
    /\ lhTables = <<>>
    /\ lhPc = "new"
    /\ lhErr = Nil
    /\ lhTotalSize = 0
    /\ lhGiven = <<>>

\* levelHandler.initTables(tables)
InitTables(tables) ==
    /\ lhPc = "new"
    /\ lhGiven' = tables
    /\ lhTotalSize' = totalSize(tables)
    /\ lhTables' \in sortSlice(tables, lhLevel)
    /\ lhPc' = "loaded"
    /\ UNCHANGED <<lhLevel, lhErr>>
    /\ UNCHANGED nonLevelVars

\* levelHandler.validate()
Validate ==
    /\ lhPc = "loaded"
    /\ lhErr' = validate(lhLevel, lhTables)
    /\ lhPc' = "validated"
    /\ UNCHANGED <<lhLevel, lhTables, lhTotalSize, lhGiven>>
    /\ UNCHANGED nonLevelVars

NextLevel ==
    \/ /\ lhPc = "new"
       /\ \E slice \in TableSlices :
             \E sizes \in [1..Len(slice) -> TableSizeMenu] :
                InitTables(TablesOfSizes(slice, sizes))
    \/ Validate

(***************************************************************************)
(* Properties of the level handler.                                        *)
(***************************************************************************)
WellFormedLevel(tables) ==
    /\ \A j \in 1..Len(tables) : CompareKeys(tables[j].smallest, tables[j].largest) <= 0
    /\ \A j \in 2..Len(tables) : CompareKeys(tables[j - 1].largest, tables[j].smallest) < 0

nonThrottleVars ==
    <<storageVars, levelVars, openVars, refVars, closerVars, rangeVars, configVars, codecVars, appendVars, tableVars>>

Jobs == 1..MaxJobs

\* the error of worker w's work, when it fails
workError(w) == ToString(w)

\* a NewThrottle with one slot too many
NewThrottle_OneMore(max) ==
    [channel |-> max + 1, errorChannel |-> max]

\* NewThrottle(max): the capacities of its two channels
NewThrottle(max) ==
    [channel |-> max, errorChannel |-> max]

ThrottleInit ==
    /\ thChannel = 0
    /\ thErrorChannel = <<>>
    /\ thWaitGroup = 0
    /\ thOnce = FALSE
    /\ thFinishError = Nil
    /\ thPc = "loop"
    /\ thJobs = 0
    /\ thDoErr = Nil
    /\ thFinishReturns = <<>>
    /\ thWorkers = [w \in Jobs |-> [pc |-> "unborn", err |-> Nil]]
    /\ thPassed = {}

\* Do, the select taking `t.channel <- struct{}{}`
DoSend ==
    /\ thPc = "loop"
    /\ thJobs < MaxJobs
    /\ thChannel < NewThrottle(throttleWorkers).channel
    /\ thChannel' = thChannel + 1
    /\ thPc' = "add"
    /\ UNCHANGED <<thErrorChannel, thWaitGroup, thOnce, thFinishError, thJobs, thDoErr,
                   thFinishReturns, thWorkers, thPassed>>
    /\ UNCHANGED nonThrottleVars

\* Do: waitGroup.Add(1) and return nil; the caller starts the worker
DoAdd ==
    /\ thPc = "add"
    /\ thWaitGroup' = thWaitGroup + 1
    /\ thJobs' = thJobs + 1
    /\ thWorkers' = [thWorkers EXCEPT ![thJobs + 1].pc = "working"]
    /\ thPc' = "loop"
    /\ UNCHANGED <<thChannel, thErrorChannel, thOnce, thFinishError, thDoErr, thFinishReturns,
                   thPassed>>
    /\ UNCHANGED nonThrottleVars

\* Do, the select taking `err := <-t.errorChannel`: only non-nil errors are
\* ever sent, so Do returns it, and the caller returns
DoReceive ==
    /\ thPc = "loop"
    /\ thJobs < MaxJobs
    /\ thErrorChannel # <<>>
    /\ thDoErr' = Head(thErrorChannel)
    /\ thErrorChannel' = Tail(thErrorChannel)
    /\ thPc' = "failed"
    /\ UNCHANGED <<thChannel, thWaitGroup, thOnce, thFinishError, thJobs, thFinishReturns,
                   thWorkers, thPassed>>
    /\ UNCHANGED nonThrottleVars

\* the caller has no more work and calls Finish
FinishCall ==
    /\ thPc = "loop"
    /\ thPc' = "finish"
    /\ UNCHANGED <<thChannel, thErrorChannel, thWaitGroup, thOnce, thFinishError, thJobs,
                   thDoErr, thFinishReturns, thWorkers, thPassed>>
    /\ UNCHANGED nonThrottleVars

\* Finish, the first call: once waitGroup.Wait() returns it closes the
\* channels, keeps the first error buffered and returns it
FinishOnce ==
    /\ thPc = "finish"
    /\ ~thOnce
    /\ thWaitGroup = 0
    /\ thOnce' = TRUE
    /\ thFinishError' = IF thErrorChannel = <<>> THEN Nil ELSE Head(thErrorChannel)
    /\ thErrorChannel' = IF thErrorChannel = <<>> THEN <<>> ELSE Tail(thErrorChannel)
    /\ thFinishReturns' = Append(thFinishReturns, thFinishError')
    /\ thPc' = "finished"
    /\ UNCHANGED <<thChannel, thWaitGroup, thJobs, thDoErr, thWorkers, thPassed>>
    /\ UNCHANGED nonThrottleVars

\* Finish called again: once.Do does nothing
FinishAgain ==
    /\ thPc = "finished"
    /\ thOnce
    /\ Len(thFinishReturns) < 2
    /\ thFinishReturns' = Append(thFinishReturns, thFinishError)
    /\ UNCHANGED <<thChannel, thErrorChannel, thWaitGroup, thOnce, thFinishError, thPc, thJobs,
                   thDoErr, thWorkers, thPassed>>
    /\ UNCHANGED nonThrottleVars

\* worker w ends its work and calls Done(err)
DoneCall(w, err) ==
    /\ thWorkers[w].pc = "working"
    /\ thWorkers' = [thWorkers EXCEPT ![w] =
                        [pc |-> IF err # Nil THEN "send" ELSE "release", err |-> err]]
    /\ thPassed' = IF err # Nil THEN thPassed \cup {err} ELSE thPassed
    /\ UNCHANGED <<thChannel, thErrorChannel, thWaitGroup, thOnce, thFinishError, thPc, thJobs,
                   thDoErr, thFinishReturns>>
    /\ UNCHANGED nonThrottleVars

\* Done: `t.errorChannel <- err`, which waits while the buffer is full
DoneSend(w) ==
    /\ thWorkers[w].pc = "send"
    /\ Len(thErrorChannel) < NewThrottle(throttleWorkers).errorChannel
    /\ thErrorChannel' = Append(thErrorChannel, thWorkers[w].err)
    /\ thWorkers' = [thWorkers EXCEPT ![w].pc = "release"]
    /\ UNCHANGED <<thChannel, thWaitGroup, thOnce, thFinishError, thPc, thJobs, thDoErr,
                   thFinishReturns, thPassed>>
    /\ UNCHANGED nonThrottleVars

\* Done: the select on `<-t.channel`, or the panic of its default case
DoneRelease(w) ==
    /\ thWorkers[w].pc = "release"
    /\ thChannel' = IF thChannel > 0 THEN thChannel - 1 ELSE thChannel
    /\ thWorkers' = [thWorkers EXCEPT ![w].pc = IF thChannel > 0 THEN "wgdone" ELSE "panic"]
    /\ UNCHANGED <<thErrorChannel, thWaitGroup, thOnce, thFinishError, thPc, thJobs, thDoErr,
                   thFinishReturns, thPassed>>
    /\ UNCHANGED nonThrottleVars

\* Done: waitGroup.Done() and return
DoneWaitGroup(w) ==
    /\ thWorkers[w].pc = "wgdone"
    /\ thWaitGroup' = thWaitGroup - 1
    /\ thWorkers' = [thWorkers EXCEPT ![w].pc = "returned"]
    /\ UNCHANGED <<thChannel, thErrorChannel, thOnce, thFinishError, thPc, thJobs, thDoErr,
                   thFinishReturns, thPassed>>
    /\ UNCHANGED nonThrottleVars

Dispatcher ==
    \/ DoSend
    \/ DoAdd
    \/ DoReceive
    \/ FinishCall
    \/ FinishOnce
    \/ FinishAgain

Worker(w) ==
    \/ \E err \in {Nil, workError(w)} : DoneCall(w, err)
    \/ DoneSend(w)
    \/ DoneRelease(w)
    \/ DoneWaitGroup(w)

NextThrottle ==
    \/ Dispatcher
    \/ \E w \in Jobs : Worker(w)

(***************************************************************************)
(* Properties of the throttle.                                             *)
(***************************************************************************)
\* the workers Do admitted that have not yet returned from Done
Admitted ==
    {w \in Jobs : thWorkers[w].pc \in {"working", "send", "release", "wgdone"}}

\* the workers Do admitted that have not yet given their slot back in Done
HoldingSlot ==
    {w \in Jobs : thWorkers[w].pc \in {"working", "send", "release"}}

\* C15 as stated: at every moment the number of workers that Do admitted and
\* that have not yet completed Done is at most max.
C15_AdmittedAtMostMax ==
    Cardinality(Admitted) <= throttleWorkers

\* C15 as amended: at every moment the number of workers that Do admitted and
\* that have not yet given their slot back in Done is at most max.
C15_HoldingSlotAtMostMax ==
    Cardinality(HoldingSlot) <= throttleWorkers

\* max workers hold a slot and the dispatcher, with work left, waits in Do
C15_Witness ==
    /\ Cardinality({w \in Jobs : thWorkers[w].pc = "working"}) = throttleWorkers
    /\ thPc = "loop"
    /\ thJobs < MaxJobs
    /\ thChannel = throttleWorkers

\* C16: an error passed to Done is not lost: a caller in Finish gets a non-nil
\* error from it (a Do that returned one ends the caller before Finish), so
\* Finish is never left waiting with no goroutine able to move; and every
\* Finish returns what the first one returned.
C16_ErrorNotLost ==
    /\ (thPassed # {} /\ Len(thFinishReturns) >= 1) => thFinishReturns[1] # Nil
    /\ (thPassed # {} /\ thPc = "finish") => ENABLED NextThrottle
    /\ \A i \in DOMAIN thFinishReturns : thFinishReturns[i] = thFinishReturns[1]

(***************************************************************************)
(* Open, with newLevelsController inside it.  Each call that can fail      *)
(* either succeeds or returns an error.                                    *)
(***************************************************************************)
\* what the steps of Open leave alone
nonOpenVars ==
    <<storageVars, levelVars, throttleVars, refVars, closerVars, rangeVars, configVars, codecVars, appendVars, tableVars>>

OpenTableIds == 1..MaxOpenTables

\* what acquireDirectoryLock leaves held for the directory of this kind
lockResources(kind, readOnly) ==
    {<<kind, "flock">>} \cup (IF readOnly THEN {} ELSE {<<kind, "pid file">>})

\* directoryLockGuard.release(): the pid file removed, the directory closed
release(held, kind) ==
    held \ {<<kind, "flock">>, <<kind, "pid file">>}

\* Open's deferred functions, last registered first
deferred(locals, held) ==
    LET afterManifest == IF "manifestFile" \in locals
                         THEN held \ {<<"manifest", "file">>} ELSE held
        afterValue == IF "valueDirectoryLockGuard" \in locals
                      THEN release(afterManifest, "value directory") ELSE afterManifest
    IN IF "directoryLockGuard" \in locals
       THEN release(afterValue, "directory") ELSE afterValue

\* table.OpenTable(file, options) as the source has it: file.Stat failing
\* closes the file; otherwise it returns a nil table and a nil error and the
\* file stays open
OpenTable(statFails) ==
    IF statFails THEN [table |-> Nil, err |-> "stat", closed |-> TRUE]
    ELSE [table |-> Nil, err |-> Nil, closed |-> FALSE]

\* closeAllTables(tables), and cleanupLevels over the same tables: t.Close()
\* for every entry.  Close is called on the nil tables OpenTable returned: it
\* either dereferences its receiver, a panic, or returns; no file is closed.
closeAllTables(files, tables) ==
    IF \A i \in DOMAIN tables : tables[i] # Nil
    THEN {[panic |-> FALSE, files |-> files \ {tables[i] : i \in DOMAIN tables}]}
    ELSE {[panic |-> TRUE, files |-> files], [panic |-> FALSE, files |-> files]}

Running ==
    {w \in OpenTableIds : opWorkers[w].pc \notin {"unborn", "done"}}

OpenInit ==
    /\ opOptions \in [readOnly : BOOLEAN, sameDirectory : BOOLEAN, tables : 0..MaxOpenTables]
    /\ opPc = "start"
    /\ opErr = Nil
    /\ opLocals = {}
    /\ opHeld = {}
    /\ opFiles = {}
    /\ opTables = <<>>
    /\ opStarted = 0
    /\ opWorkers = [w \in OpenTableIds |-> [pc |-> "unborn", err |-> Nil]]
    /\ opErrors = <<>>

\* `return nil, err`
Fail(err) ==
    /\ opPc' = "return"
    /\ opErr' = err

\* directoryLockGuard, err = acquireDirectoryLock(opts.Directory, ...)
OpenAcquireDirectoryLock ==
    /\ opPc = "start"
    /\ \/ /\ opPc' = "locked"
          /\ opLocals' = opLocals \cup {"directoryLockGuard"}
          /\ opHeld' = opHeld \cup lockResources("directory", opOptions.readOnly)
          /\ UNCHANGED opErr
       \/ /\ Fail("cannot acquire directory lock")
          /\ UNCHANGED <<opLocals, opHeld>>
    /\ UNCHANGED <<opOptions, opFiles, opTables, opStarted, opWorkers, opErrors>>
    /\ UNCHANGED nonOpenVars

\* the lock of the value directory, when it is another directory
OpenAcquireValueDirectoryLock ==
    /\ opPc = "locked"
    /\ \/ /\ opOptions.sameDirectory
          /\ opPc' = "valueLocked"
          /\ UNCHANGED <<opLocals, opHeld, opErr>>
       \/ /\ ~opOptions.sameDirectory
          /\ opPc' = "valueLocked"
          /\ opLocals' = opLocals \cup {"valueDirectoryLockGuard"}
          /\ opHeld' = opHeld \cup lockResources("value directory", opOptions.readOnly)
          /\ UNCHANGED opErr
       \/ /\ ~opOptions.sameDirectory
          /\ Fail("cannot acquire directory lock")
          /\ UNCHANGED <<opLocals, opHeld>>
    /\ UNCHANGED <<opOptions, opFiles, opTables, opStarted, opWorkers, opErrors>>
    /\ UNCHANGED nonOpenVars

\* manifestFile, manifest, err := openOrCreateManifestFile(opts)
OpenOrCreateManifestFile ==
    /\ opPc = "valueLocked"
    /\ \/ /\ opPc' = "manifest"
          /\ opLocals' = opLocals \cup {"manifestFile"}
          /\ opHeld' = opHeld \cup {<<"manifest", "file">>}
          /\ UNCHANGED opErr
       \/ /\ Fail("manifest")
          /\ UNCHANGED <<opLocals, opHeld>>
    /\ UNCHANGED <<opOptions, opFiles, opTables, opStarted, opWorkers, opErrors>>
    /\ UNCHANGED nonOpenVars

\* ristretto.NewCache, then OpenKeyRegistry
OpenCacheAndRegistry ==
    /\ opPc = "manifest"
    /\ \/ /\ opPc' = "registry"
          /\ UNCHANGED opErr
       \/ Fail("failed to create cache")
       \/ Fail("key registry")
    /\ UNCHANGED <<opOptions, opLocals, opHeld, opFiles, opTables, opStarted, opWorkers,
                   opErrors>>
    /\ UNCHANGED nonOpenVars

\* newLevelsController: revertToManifest
LevelsRevertToManifest ==
    /\ opPc = "registry"
    /\ \/ /\ opPc' = "dispatch"
          /\ UNCHANGED opErr
       \/ Fail("file does not exist for table")
    /\ UNCHANGED <<opOptions, opLocals, opHeld, opFiles, opTables, opStarted, opWorkers,
                   opErrors>>
    /\ UNCHANGED nonOpenVars

\* newLevelsController's loop: throttle.Do() returns nil and the worker of the
\* next table is started
LevelsDoAdmit ==
    /\ opPc = "dispatch"
    /\ opStarted < opOptions.tables
    /\ Cardinality(Running) < NewThrottle(throttleWorkers).channel
    /\ opStarted' = opStarted + 1
    /\ opWorkers' = [opWorkers EXCEPT ![opStarted + 1].pc = "open"]
    /\ UNCHANGED <<opOptions, opPc, opErr, opLocals, opHeld, opFiles, opTables, opErrors>>
    /\ UNCHANGED nonOpenVars

\* newLevelsController's loop: throttle.Do() returns the error of a worker;
\* closeAllTables(tables) and return
LevelsDoFail ==
    /\ opPc = "dispatch"
    /\ opStarted < opOptions.tables
    /\ opErrors # <<>>
    /\ opErrors' = Tail(opErrors)
    /\ \E out \in closeAllTables(opFiles, opTables) :
          /\ opFiles' = out.files
          /\ IF out.panic THEN opPc' = "panic" /\ UNCHANGED opErr
             ELSE Fail(Head(opErrors))
    /\ UNCHANGED <<opOptions, opLocals, opHeld, opTables, opStarted, opWorkers>>
    /\ UNCHANGED nonOpenVars

\* throttle.Finish() once every worker is done
LevelsFinish ==
    /\ opPc = "dispatch"
    /\ opStarted = opOptions.tables
    /\ Running = {}
    /\ \/ /\ opErrors = <<>>
          /\ opPc' = "attach"
          /\ UNCHANGED <<opErr, opFiles, opErrors>>
       \/ /\ opErrors # <<>>
          /\ opErrors' = Tail(opErrors)
          /\ \E out \in closeAllTables(opFiles, opTables) :
                /\ opFiles' = out.files
                /\ IF out.panic THEN opPc' = "panic" /\ UNCHANGED opErr
                   ELSE Fail(Head(opErrors))
    /\ UNCHANGED <<opOptions, opLocals, opHeld, opTables, opStarted, opWorkers>>
    /\ UNCHANGED nonOpenVars

\* initTables, then validate and syncDir: an error of either closes the levels
LevelsAttach ==
    /\ opPc = "attach"
    /\ \/ /\ opPc' = "built"
          /\ UNCHANGED <<opErr, opFiles>>
       \/ \E err \in {"failed to validate levels", "sync"} :
             \E out \in closeAllTables(opFiles, opTables) :
                /\ opFiles' = out.files
                /\ IF out.panic THEN opPc' = "panic" /\ UNCHANGED opErr
                   ELSE Fail(err)
    /\ UNCHANGED <<opOptions, opLocals, opHeld, opTables, opStarted, opWorkers, opErrors>>
    /\ UNCHANGED nonOpenVars

\* the locals set to nil and `return db, nil`
OpenSucceed ==
    /\ opPc = "built"
    /\ opLocals' = {}
    /\ opPc' = "ok"
    /\ UNCHANGED <<opOptions, opErr, opHeld, opFiles, opTables, opStarted, opWorkers,
                   opErrors>>
    /\ UNCHANGED nonOpenVars

\* the deferred functions run and Open returns its error
OpenReturn ==
    /\ opPc = "return"
    /\ opHeld' = deferred(opLocals, opHeld)
    /\ opPc' = "err"
    /\ UNCHANGED <<opOptions, opErr, opLocals, opFiles, opTables, opStarted, opWorkers,
                   opErrors>>
    /\ UNCHANGED nonOpenVars

\* worker: z.OpenExistingFile(fileName, flags)
WorkerOpenExistingFile(w) ==
    /\ opWorkers[w].pc = "open"
    /\ \/ /\ opFiles' = opFiles \cup {w}
          /\ opWorkers' = [opWorkers EXCEPT ![w].pc = "key"]
       \/ /\ opWorkers' = [opWorkers EXCEPT ![w] = [pc |-> "report", err |-> "opening file"]]
          /\ UNCHANGED opFiles
    /\ UNCHANGED <<opOptions, opPc, opErr, opLocals, opHeld, opTables, opStarted, opErrors>>
    /\ UNCHANGED nonOpenVars

\* worker: db.registry.dataKey(partitionId, tableManifest.KeyID)
WorkerDataKey(w) ==
    /\ opWorkers[w].pc = "key"
    /\ \/ opWorkers' = [opWorkers EXCEPT ![w].pc = "table"]
       \/ opWorkers' = [opWorkers EXCEPT ![w] =
                           [pc |-> "report", err |-> "failed to read data key"]]
    /\ UNCHANGED <<opOptions, opPc, opErr, opLocals, opHeld, opFiles, opTables, opStarted,
                   opErrors>>
    /\ UNCHANGED nonOpenVars

\* worker: table.OpenTable(file, tableOptions).  On an error that is not a
\* checksum mismatch the worker's err is z.Wrapf(err, ...) of its own nil err.
WorkerOpenTable(w) ==
    /\ opWorkers[w].pc = "table"
    /\ \E statFails \in BOOLEAN :
          LET r == OpenTable(statFails)
          IN /\ opFiles' = IF r.closed THEN opFiles \ {w} ELSE opFiles
             /\ \/ /\ r.err = Nil
                   /\ opWorkers' = [opWorkers EXCEPT ![w].pc = "append"]
                \/ /\ r.err # Nil
                   /\ opWorkers' = [opWorkers EXCEPT ![w].pc = "done"]
    /\ UNCHANGED <<opOptions, opPc, opErr, opLocals, opHeld, opTables, opStarted, opErrors>>
    /\ UNCHANGED nonOpenVars

\* worker: the table appended to tables, and throttle.Done(nil)
WorkerAppend(w) ==
    /\ opWorkers[w].pc = "append"
    /\ opTables' = Append(opTables, OpenTable(FALSE).table)
    /\ opWorkers' = [opWorkers EXCEPT ![w].pc = "done"]
    /\ UNCHANGED <<opOptions, opPc, opErr, opLocals, opHeld, opFiles, opStarted, opErrors>>
    /\ UNCHANGED nonOpenVars

\* worker: throttle.Done(err), err not nil
WorkerReport(w) ==
    /\ opWorkers[w].pc = "report"
    /\ Len(opErrors) < NewThrottle(throttleWorkers).errorChannel
    /\ opErrors' = Append(opErrors, opWorkers[w].err)
    /\ opWorkers' = [opWorkers EXCEPT ![w].pc = "done"]
    /\ UNCHANGED <<opOptions, opPc, opErr, opLocals, opHeld, opFiles, opTables, opStarted>>
    /\ UNCHANGED nonOpenVars

NextOpen ==
    \/ OpenAcquireDirectoryLock
    \/ OpenAcquireValueDirectoryLock
    \/ OpenOrCreateManifestFile
    \/ OpenCacheAndRegistry
    \/ LevelsRevertToManifest
    \/ LevelsDoAdmit
    \/ LevelsDoFail
    \/ LevelsFinish
    \/ LevelsAttach
    \/ OpenSucceed
    \/ OpenReturn
    \/ \E w \in OpenTableIds :
          \/ WorkerOpenExistingFile(w)
          \/ WorkerDataKey(w)
          \/ WorkerOpenTable(w)
          \/ WorkerAppend(w)
          \/ WorkerReport(w)

nonRefVars ==
    <<storageVars, levelVars, throttleVars, openVars, closerVars, rangeVars, configVars, codecVars, appendVars, tableVars>>

Owner == 0
Readers == 1..NumReaders
Holders == {Owner} \cup Readers

\* the goroutines that hold a reference or an open iterator
Live ==
    {g \in Holders : slHolders[g] \in {"reference", "iterator"}}

\* DecrementReferences that lets go of the arena one reference early
releases_Early(newRef) ==
    ~(newRef > 1)

\* DecrementReferences goes on to reset the arena unless newRef > 0
releases(newRef) ==
    ~(newRef > 0)

\* NewSkiplist: references = 1, held by the owner
RefInit ==
    /\ slReferences = 1
    /\ slArena = "live"
    /\ slHolders = [g \in Holders |-> IF g = Owner THEN "reference" ELSE "none"]
    /\ slNewRef = [g \in Holders |-> 0]
    /\ slReleasedBy = <<>>

\* a holder calls IncrementReferences for reader r
IncrementReferences(r) ==
    /\ Live # {}
    /\ slHolders[r] = "none"
    /\ slReferences' = slReferences + 1
    /\ slHolders' = [slHolders EXCEPT ![r] = "reference"]
    /\ UNCHANGED <<slArena, slNewRef, slReleasedBy>>
    /\ UNCHANGED nonRefVars

\* a holder calls NewIterator for reader r
NewIterator(r) ==
    /\ Live # {}
    /\ slHolders[r] = "none"
    /\ slReferences' = slReferences + 1
    /\ slHolders' = [slHolders EXCEPT ![r] = "iterator"]
    /\ UNCHANGED <<slArena, slNewRef, slReleasedBy>>
    /\ UNCHANGED nonRefVars

\* DecrementReferences, by a holder of a reference or through Iterator.Close:
\* newRef := atomic.AddInt32(&s.references, -1)
DecrementReferences(g) ==
    /\ slHolders[g] \in {"reference", "iterator"}
    /\ slReferences' = slReferences - 1
    /\ slNewRef' = [slNewRef EXCEPT ![g] = slReferences - 1]
    /\ slHolders' = [slHolders EXCEPT ![g] = "decremented"]
    /\ UNCHANGED <<slArena, slReleasedBy>>
    /\ UNCHANGED nonRefVars

\* DecrementReferences: return if newRef > 0, else reset the arena and drop it
DecrementReferencesEnd(g) ==
    /\ slHolders[g] = "decremented"
    /\ slHolders' = [slHolders EXCEPT ![g] = "done"]
    /\ IF releases(slNewRef[g])
       THEN /\ slArena' = "released"
            /\ slReleasedBy' = Append(slReleasedBy, g)
       ELSE UNCHANGED <<slArena, slReleasedBy>>
    /\ UNCHANGED <<slReferences, slNewRef>>
    /\ UNCHANGED nonRefVars

NextRef ==
    \/ \E r \in Readers : IncrementReferences(r)
    \/ \E r \in Readers : NewIterator(r)
    \/ \E g \in Holders : DecrementReferences(g)
    \/ \E g \in Holders : DecrementReferencesEnd(g)

(***************************************************************************)
(* Properties of the reference count.                                      *)
(***************************************************************************)
\* C18: a new skiplist holds one reference, NewIterator adds one and Close
\* removes one; the arena is released exactly when the count reaches zero, and
\* never while the owner's reference or an open iterator still exists.
C18_ReleasedAtZero ==
    /\ slReferences = Cardinality(Live)
    /\ Live # {} => slArena = "live"
    /\ slArena = "released" => (slReferences = 0 /\ Len(slReleasedBy) = 1)
    /\ (slReferences = 0 /\ slArena = "live") =>
          \E g \in Holders : slHolders[g] = "decremented" /\ slNewRef[g] = 0

\* the owner gave its reference back first, readers took references and
\* iterators, and the close of the last iterator released the arena
C18_Witness ==
    /\ slArena = "released"
    /\ \A g \in Holders : slHolders[g] = "done"
    /\ slReleasedBy # <<>>
    /\ slReleasedBy[1] \in Readers

(***************************************************************************)
(* The compaction workers and their Closer (startCompaction and runWorker  *)
(* of the levels controller; the Closer's methods are those of the         *)
(* specification's Closer primitive: a done signal that is raised once and *)
(* a wait group).                                                          *)
(***************************************************************************)
\* what the compaction workers leave alone
nonCloserVars ==
    <<storageVars, levelVars, throttleVars, openVars, refVars, rangeVars, configVars, codecVars, appendVars, tableVars>>

CompactionWorkers == 1..MaxCompactors

\* z.NewCloser(initial): the signal not raised, the wait group at initial
NewCloser(initial) ==
    [closed |-> FALSE, waiting |-> initial]

\* the workers of this database
Started ==
    {w \in CompactionWorkers : cwPc[w] # "none"}

\* the workers that have not called Done
Registered ==
    {w \in CompactionWorkers : cwPc[w] \in {"delay", "loop"}}

\* Open: db.closers.compactors = z.NewCloser(1)
CloserInit ==
    /\ numCompactors \in 0..MaxCompactors
    /\ clClosed = NewCloser(1).closed
    /\ clWaiting = NewCloser(1).waiting
    /\ clPc = "opened"
    /\ cwPc = [w \in CompactionWorkers |-> "none"]
    /\ cwTimer = [w \in CompactionWorkers |-> FALSE]

\* startCompaction: closer.AddRunning(n - 1), then n goroutines in runWorker,
\* each waiting on its random delay
startCompaction ==
    /\ clPc = "opened"
    /\ clPc' = "compacting"
    /\ clWaiting' = clWaiting + (numCompactors - 1)
    /\ cwPc' = [w \in CompactionWorkers |->
                   IF w <= numCompactors THEN "delay" ELSE "none"]
    /\ UNCHANGED <<numCompactors, clClosed, cwTimer>>
    /\ UNCHANGED nonCloserVars

\* runWorker, first select, case <-randomDelay.C: go on to the tick loop with
\* ticker := time.NewTimer(time.Second)
runWorkerDelayOver(w) ==
    /\ cwPc[w] = "delay"
    /\ cwPc' = [cwPc EXCEPT ![w] = "loop"]
    /\ cwTimer' = [cwTimer EXCEPT ![w] = TRUE]
    /\ UNCHANGED <<numCompactors, clClosed, clWaiting, clPc>>
    /\ UNCHANGED nonCloserVars

\* runWorker, first select, case <-closer.HasBeenClosed(): return, and the
\* deferred closer.Done() runs
runWorkerClosed(w) ==
    /\ cwPc[w] = "delay"
    /\ clClosed
    /\ cwPc' = [cwPc EXCEPT ![w] = "done"]
    /\ clWaiting' = clWaiting - 1
    /\ UNCHANGED <<numCompactors, clClosed, clPc, cwTimer>>
    /\ UNCHANGED nonCloserVars

\* runWorker, the loop's select, its only case <-ticker.C: the timer fires
\* once, the worker picks the compaction levels and selects again
runWorkerTick(w) ==
    /\ cwPc[w] = "loop"
    /\ cwTimer[w]
    /\ cwTimer' = [cwTimer EXCEPT ![w] = FALSE]
    /\ UNCHANGED <<numCompactors, clClosed, clWaiting, clPc, cwPc>>
    /\ UNCHANGED nonCloserVars

\* shutdown, stop compactors: raise the Closer's done signal
CloserSignal ==
    /\ clPc = "compacting"
    /\ clClosed' = TRUE
    /\ clPc' = "waiting"
    /\ UNCHANGED <<numCompactors, clWaiting, cwPc, cwTimer>>
    /\ UNCHANGED nonCloserVars

\* shutdown: the wait on the Closer's wait group returns
CloserWait ==
    /\ clPc = "waiting"
    /\ clWaiting = 0
    /\ clPc' = "stopped"
    /\ UNCHANGED <<numCompactors, clClosed, clWaiting, cwPc, cwTimer>>
    /\ UNCHANGED nonCloserVars

NextCloser ==
    \/ startCompaction
    \/ \E w \in CompactionWorkers : runWorkerDelayOver(w)
    \/ \E w \in CompactionWorkers : runWorkerClosed(w)
    \/ \E w \in CompactionWorkers : runWorkerTick(w)
    \/ CloserSignal
    \/ CloserWait

(***************************************************************************)
(* Properties of the compaction workers.                                   *)
(***************************************************************************)
\* the Closer counts exactly the workers that have not called Done
RegisteredExactly ==
    clPc # "opened" =>
        /\ Cardinality(Started) = numCompactors
        /\ clWaiting = Cardinality(Registered)

\* C19: startCompaction registers exactly NumCompactors workers on the Closer,
\* and once the done signal is raised every worker, in its startup delay or in
\* its tick loop, stops and calls Done, so the wait on the Closer completes:
\* the shutdown is never left waiting with no step of any worker to come.
C19_ShutdownCompletes ==
    /\ RegisteredExactly
    /\ clPc = "waiting" => ENABLED NextCloser

(***************************************************************************)
(* Key ranges of the compaction status and their overlap test.             *)
(***************************************************************************)
\* what the overlap test leaves alone
nonRangeVars ==
    <<storageVars, levelVars, throttleVars, openVars, refVars, closerVars, configVars, codecVars, appendVars, tableVars>>

\* end points of the ranges: a@2 < a@1 < b@2 < b@1 under CompareKeys
RangeKeyMenu ==
    {KeyWithTs(<<97>>, 2), KeyWithTs(<<97>>, 1), KeyWithTs(<<98>>, 2), KeyWithTs(<<98>>, 1)}

keyRange(left, right, infinite) ==
    [left |-> left, right |-> right, infinite |-> infinite]

infiniteRange ==
    keyRange(<<>>, <<>>, TRUE)

\* the key ranges over the menu, and the infinite range
KeyRanges ==
    {keyRange(l, r, i) : l \in RangeKeyMenu, r \in RangeKeyMenu, i \in BOOLEAN}
        \cup {infiniteRange}

\* overlapsWith in which ranges that only touch do not overlap
overlapsWith_Strict(r, destination) ==
    IF r.infinite \/ destination.infinite THEN TRUE
    ELSE IF CompareKeys(r.left, destination.right) >= 0 THEN FALSE
    ELSE IF CompareKeys(r.right, destination.left) <= 0 THEN FALSE
    ELSE TRUE

overlapsWith(r, destination) ==
    IF r.infinite \/ destination.infinite THEN TRUE
    ELSE IF CompareKeys(r.left, destination.right) > 0 THEN FALSE
    ELSE IF CompareKeys(r.right, destination.left) < 0 THEN FALSE
    ELSE TRUE

RangeCalls == {"ab", "ba", "aa"}

RangeInit ==
    /\ krA \in KeyRanges
    /\ krB \in KeyRanges
    /\ krCalled = {}
    /\ krResult = [c \in RangeCalls |-> FALSE]

\* one call of overlapsWith: a on b, b on a, or a on itself
OverlapsWith(c) ==
    /\ c \notin krCalled
    /\ krCalled' = krCalled \cup {c}
    /\ krResult' = [krResult EXCEPT ![c] =
                       CASE c = "ab" -> overlapsWith(krA, krB)
                         [] c = "ba" -> overlapsWith(krB, krA)
                         [] c = "aa" -> overlapsWith(krA, krA)]
    /\ UNCHANGED <<krA, krB>>
    /\ UNCHANGED nonRangeVars

NextRange ==
    \E c \in RangeCalls : OverlapsWith(c)

(***************************************************************************)
(* Properties of the overlap test.                                         *)
(***************************************************************************)
\* key k lies in the closed interval [r.left, r.right]
InRange(k, r) ==
    CompareKeys(r.left, k) <= 0 /\ CompareKeys(k, r.right) <= 0

\* the closed intervals share a key; two intervals that share a key share an
\* end point, so the end points of the menu are the keys to look at
NotDisjoint(a, b) ==
    \E k \in RangeKeyMenu : InRange(k, a) /\ InRange(k, b)

\* what the overlap of a and b is to be
Overlap(a, b) ==
    a.infinite \/ b.infinite \/ NotDisjoint(a, b)

\* a range that is infinite or whose left end is not after its right end
Ordered(r) ==
    r.infinite \/ CompareKeys(r.left, r.right) <= 0

\* the overlap test is symmetric
OverlapSymmetric ==
    {"ab", "ba"} \subseteq krCalled => krResult["ab"] = krResult["ba"]

\* C20 as stated: overlapsWith(a, b) is true exactly when a or b is infinite or
\* the closed intervals are not disjoint, touching end points included; the
\* relation is symmetric, and every range overlaps itself.
C20_OverlapExact ==
    /\ "ab" \in krCalled => krResult["ab"] = Overlap(krA, krB)
    /\ OverlapSymmetric
    /\ "aa" \in krCalled => krResult["aa"]

\* C20, amended: for ranges that are infinite or have left <= right the test is
\* true exactly when one is infinite or the closed intervals are not disjoint,
\* and such a range overlaps itself; the test is symmetric on all ranges.
C20_OverlapExactOrdered ==
    /\ ("ab" \in krCalled /\ Ordered(krA) /\ Ordered(krB))
          => krResult["ab"] = Overlap(krA, krB)
    /\ OverlapSymmetric
    /\ ("aa" \in krCalled /\ Ordered(krA)) => krResult["aa"]

\* two bounded ranges that only touch, a.right = b.left, found to overlap
C20_Witness ==
    /\ krCalled = RangeCalls
    /\ ~krA.infinite /\ ~krB.infinite
    /\ CompareKeys(krA.left, krA.right) < 0
    /\ CompareKeys(krB.left, krB.right) < 0
    /\ krA.right = krB.left
    /\ krResult["ab"] /\ krResult["ba"] /\ krResult["aa"]

(***************************************************************************)
(* Open's checks of its options and its first steps (the directories, the  *)
(* locks, the manifest file and OpenKeyRegistry).  Sizes are in KiB.       *)
(***************************************************************************)
\* what these steps of Open leave alone
nonConfigVars ==
    <<storageVars, levelVars, throttleVars, openVars, refVars, closerVars, rangeVars, codecVars, appendVars, tableVars>>

\* options.FileIO, options.LoadToRAM, options.MemoryMap
FileIO == 0
LoadToRAM == 1
MemoryMap == 2

\* the largest ValueThreshold Open accepts, in KiB
maxValueThreshold == 1024
\* 1 << 20 and 2 << 30 bytes, in KiB
minValueLogFileSize == 1024
maxValueLogFileSize == 2097152

ErrValueLogSize == "Invalid ValueLogFileSize, must be between 1MB and 2GB"
ErrInvalidLoadingMode == "Invalid ValueLogLoadingMode, must be FileIO or MemoryMap"
ErrInvalidEncryptionKey == "Encryption key's length should be either 16, 24, or 32 bytes"
ErrDisklessWithDirectory ==
    "Cannot use badger in Disk-less mode with Directory or ValueDirectory set"

\* the one directory of the model, and the files of Open in it
TheDirectory == "dir"
ManifestPath == "dir/MANIFEST"
KeyRegistryPath == "dir/KEYREGISTRY"

\* lengths of the encryption keys tried: none, and both sides of 16, 24 and 32
EncryptionKeyLengths == {0, 15, 16, 24, 32, 33}

\* the options Open is called with: a database on disk has its directory as
\* its value directory
OptionsMenu ==
    {o \in [InMemory : BOOLEAN,
            Directory : {"", TheDirectory},
            ValueDirectory : {"", TheDirectory},
            ReadOnly : BOOLEAN,
            ValueThreshold : {maxValueThreshold, maxValueThreshold + 1},
            ValueLogFileSize : {minValueLogFileSize - 1, minValueLogFileSize,
                                maxValueLogFileSize, maxValueLogFileSize + 1},
            ValueLogLoadingMode : {FileIO, LoadToRAM, MemoryMap},
            EncryptionKey : EncryptionKeyLengths]
       : o.InMemory \/ (o.Directory = TheDirectory /\ o.ValueDirectory = TheDirectory)}

DefaultOptions ==
    [InMemory |-> FALSE, Directory |-> TheDirectory, ValueDirectory |-> TheDirectory,
     ReadOnly |-> FALSE, ValueThreshold |-> maxValueThreshold,
     ValueLogFileSize |-> minValueLogFileSize, ValueLogLoadingMode |-> MemoryMap,
     EncryptionKey |-> 0]

\* the directory before Open: absent, empty, or holding its files
DiskMenu ==
    {{}, {TheDirectory}, {TheDirectory, ManifestPath},
     {TheDirectory, KeyRegistryPath}, {TheDirectory, ManifestPath, KeyRegistryPath}}

\* the checks at the head of Open, in their order; Nil when all pass
checkOptions(opts) ==
    IF opts.InMemory /\ (opts.Directory # "" \/ opts.ValueDirectory # "")
    THEN ErrDisklessWithDirectory
    ELSE IF opts.ValueThreshold > maxValueThreshold
    THEN "Invalid ValueThreshold"
    ELSE IF ~(opts.ValueLogFileSize <= maxValueLogFileSize
              /\ opts.ValueLogFileSize >= minValueLogFileSize)
    THEN ErrValueLogSize
    ELSE IF ~(opts.ValueLogLoadingMode = FileIO \/ opts.ValueLogLoadingMode = MemoryMap)
    THEN ErrInvalidLoadingMode
    ELSE Nil

\* the KeyRegistryOptions Open builds from its options
keyRegistryOptions(opts) ==
    [Directory |-> opts.Directory, ReadOnly |-> opts.ReadOnly,
     EncryptionKey |-> opts.EncryptionKey, InMemory |-> opts.InMemory]

\* a nil *KeyRegistry
NoRegistry ==
    [nil |-> TRUE]

newKeyRegistry(opts) ==
    [nil |-> FALSE, dataKeys |-> <<>>, nextKeyId |-> 0, options |-> opts]

\* OpenKeyRegistry(opts) over the files in disk: the registry and the error it
\* returns and the files it leaves.  Past the read-only return of the missing
\* file, and when the file exists, the function ends in `return nil, nil`.
OpenKeyRegistry(opts, files) ==
    IF opts.EncryptionKey > 0 /\ opts.EncryptionKey \notin {16, 24, 32}
    THEN [registry |-> NoRegistry, err |-> ErrInvalidEncryptionKey, disk |-> files]
    ELSE IF opts.InMemory
    THEN [registry |-> newKeyRegistry(opts), err |-> Nil, disk |-> files]
    ELSE IF KeyRegistryPath \notin files /\ opts.ReadOnly
    THEN [registry |-> newKeyRegistry(opts), err |-> Nil, disk |-> files]
    ELSE [registry |-> NoRegistry, err |-> Nil, disk |-> files]

ConfigInit ==
    /\ cfOptions \in OptionsMenu
    /\ cfDisk \in DiskMenu
    /\ cfPc = "start"
    /\ cfErr = Nil
    /\ cfGuards = {}
    /\ cfEffects = {}
    /\ cfRegistry = [called |-> FALSE, disk |-> {}, registry |-> NoRegistry, err |-> Nil]

\* `return nil, err`
ConfigFail(err) ==
    /\ cfPc' = "return"
    /\ cfErr' = err

\* the checks of the options at the head of Open
ConfigCheckOptions ==
    /\ cfPc = "start"
    /\ IF checkOptions(cfOptions) # Nil
       THEN ConfigFail(checkOptions(cfOptions))
       ELSE cfPc' = (IF cfOptions.InMemory THEN "locked" ELSE "checked") /\ UNCHANGED cfErr
    /\ UNCHANGED <<cfOptions, cfDisk, cfGuards, cfEffects, cfRegistry>>
    /\ UNCHANGED nonConfigVars

\* createDirs(opts): the directory made when it is missing, unless read-only
ConfigCreateDirs ==
    /\ cfPc = "checked"
    /\ IF TheDirectory \in cfDisk
       THEN cfPc' = "dirs" /\ UNCHANGED <<cfErr, cfDisk, cfEffects>>
       ELSE IF cfOptions.ReadOnly
       THEN /\ ConfigFail("cannot find directory for read-only open")
            /\ UNCHANGED <<cfDisk, cfEffects>>
       ELSE \/ /\ cfDisk' = cfDisk \cup {TheDirectory}
               /\ cfEffects' = cfEffects \cup {"directory created"}
               /\ cfPc' = "dirs"
               /\ UNCHANGED cfErr
            \/ /\ ConfigFail("error creating dir")
               /\ UNCHANGED <<cfDisk, cfEffects>>
    /\ UNCHANGED <<cfOptions, cfGuards, cfRegistry>>
    /\ UNCHANGED nonConfigVars

\* acquireDirectoryLock(opts.Directory, lockFileName, opts.ReadOnly); the
\* value directory is the same directory and takes no second lock
ConfigAcquireDirectoryLock ==
    /\ cfPc = "dirs"
    /\ \/ /\ cfGuards' = cfGuards \cup {"directoryLockGuard"}
          /\ cfEffects' = cfEffects \cup {"lock acquired"}
          /\ cfPc' = "locked"
          /\ UNCHANGED cfErr
       \/ /\ ConfigFail(ErrDirectoryInUse)
          /\ UNCHANGED <<cfGuards, cfEffects>>
    /\ UNCHANGED <<cfOptions, cfDisk, cfRegistry>>
    /\ UNCHANGED nonConfigVars

\* openOrCreateManifestFile(opts): nothing on disk in memory; else the file
\* opened and replayed, or created when missing and not read-only
ConfigOpenOrCreateManifestFile ==
    /\ cfPc = "locked"
    /\ IF cfOptions.InMemory \/ ManifestPath \in cfDisk
       THEN cfPc' = "manifest" /\ UNCHANGED <<cfErr, cfDisk, cfEffects>>
       ELSE IF cfOptions.ReadOnly
       THEN /\ ConfigFail("no manifest found, required for read-only db")
            /\ UNCHANGED <<cfDisk, cfEffects>>
       ELSE /\ cfDisk' = cfDisk \cup {ManifestPath}
            /\ cfEffects' = cfEffects \cup {"file written"}
            /\ cfPc' = "manifest"
            /\ UNCHANGED cfErr
    /\ UNCHANGED <<cfOptions, cfGuards, cfRegistry>>
    /\ UNCHANGED nonConfigVars

\* db.registry, err = OpenKeyRegistry(keyRegistryOptions)
ConfigOpenKeyRegistry ==
    /\ cfPc = "manifest"
    /\ LET r == OpenKeyRegistry(keyRegistryOptions(cfOptions), cfDisk)
       IN /\ cfRegistry' = [called |-> TRUE, disk |-> cfDisk,
                            registry |-> r.registry, err |-> r.err]
          /\ cfDisk' = r.disk
          /\ cfEffects' = cfEffects \cup (IF r.disk # cfDisk THEN {"file written"} ELSE {})
          /\ IF r.err # Nil THEN ConfigFail(r.err)
             ELSE cfPc' = "registry" /\ UNCHANGED cfErr
    /\ UNCHANGED <<cfOptions, cfGuards>>
    /\ UNCHANGED nonConfigVars

\* Open returns its error: the deferred functions release the lock guards
ConfigReturn ==
    /\ cfPc = "return"
    /\ cfGuards' = {}
    /\ cfPc' = "err"
    /\ UNCHANGED <<cfOptions, cfErr, cfDisk, cfEffects, cfRegistry>>
    /\ UNCHANGED nonConfigVars

NextConfig ==
    \/ ConfigCheckOptions
    \/ ConfigCreateDirs
    \/ ConfigAcquireDirectoryLock
    \/ ConfigOpenOrCreateManifestFile
    \/ ConfigOpenKeyRegistry
    \/ ConfigReturn

(***************************************************************************)
(* Properties of Open's configuration and of the key registry.             *)
(***************************************************************************)
\* C21: OpenKeyRegistry returns a usable registry and no error in each mode
\* that does not fail: in memory it touches no file; read-only with the
\* KEYREGISTRY file missing it creates no file; read-write with the file missing
\* it creates the file and returns the fresh registry.
C21_RegistryUsable ==
    (/\ cfRegistry.called
     /\ cfRegistry.err # ErrInvalidEncryptionKey
     /\ cfOptions.InMemory \/ KeyRegistryPath \notin cfRegistry.disk)
    => /\ cfRegistry.err = Nil
       /\ ~cfRegistry.registry.nil
       /\ (cfOptions.InMemory \/ cfOptions.ReadOnly) => cfDisk = cfRegistry.disk
       /\ (~cfOptions.InMemory /\ ~cfOptions.ReadOnly) => KeyRegistryPath \in cfDisk

\* the options the checks of Open and of OpenKeyRegistry are to reject
InvalidOptions(opts) ==
    \/ opts.InMemory /\ (opts.Directory # "" \/ opts.ValueDirectory # "")
    \/ opts.ValueThreshold > maxValueThreshold
    \/ opts.ValueLogFileSize < minValueLogFileSize
    \/ opts.ValueLogFileSize > maxValueLogFileSize
    \/ opts.ValueLogLoadingMode \notin {FileIO, MemoryMap}
    \/ opts.EncryptionKey \notin {0, 16, 24, 32}

\* C22: Open with an invalid configuration returns an error without having
\* created a directory, acquired a lock or written a file.
C22_InvalidRejectedUntouched ==
    InvalidOptions(cfOptions) =>
        /\ cfPc \notin {"registry"}
        /\ cfPc \in {"return", "err"} => cfEffects = {}

(***************************************************************************)
(* The conversions, each applied to inputs of a menu.                      *)
(***************************************************************************)
\* what the conversions leave alone
nonCodecVars ==
    <<storageVars, levelVars, throttleVars, openVars, refVars, closerVars, rangeVars,
      configVars, appendVars, tableVars>>

\* user keys, one a prefix of the next, and timestamps on both sides of a
\* byte boundary
CodecUserKeys == {<<>>, <<97>>, <<97, 98>>, <<98>>}
CodecTimestamps == {1, 255, 256}
CodecKeys == CodecUserKeys \X CodecTimestamps

\* changes that differ in every field, with bytes of every position set
ChangeMenu ==
    {ManifestChange(0, 0, ManifestChangeCreate, 0, 0, 0, 0),
     ManifestChange(1, 2, ManifestChangeDelete, 3, 4, 5, 6),
     ManifestChange(16909060, 84281096, ManifestChangeDelete, 9, 168496141, 14, 15),
     ManifestChange(2147483647, 2147483646, 255, 254, 2147483645, 253, 252)}

\* the change sets of at most two changes
ChangeSets ==
    {<<>>} \cup {<<c>> : c \in ChangeMenu} \cup {<<c, d>> : c \in ChangeMenu, d \in ChangeMenu}

Zeros(n) ==
    [i \in 1..n |-> 0]

\* buffers to unmarshal: the encodings of change sets cut at every length,
\* and counts of 2, 2^31, 2^32 - 1 and 178956971 (24 times which is 8 modulo
\* 2^32) before 0, 8 or 48 bytes
BufferMenu ==
    UNION {{SubSeq(MarshalSet(s), 1, n) : n \in 0..Len(MarshalSet(s))}
              : s \in {<<>>, <<ManifestChange(1, 2, ManifestChangeDelete, 3, 4, 5, 6)>>}}
      \cup {prefix \o Zeros(n)
               : prefix \in {<<0, 0, 0, 2>>, <<128, 0, 0, 0>>, <<255, 255, 255, 255>>,
                             <<10, 170, 170, 171>>},
                 n \in {0, 8, 48}}

\* the ids of table files
IdMenu == {0, 1234, 24782134, 2147483647} \X {0, 1234, 24782134, 2147483647}

\* names of files in the directory: table files, and names with the extension
\* missing or changed, the stem too short or too long, a character that is no
\* hexadecimal digit, lower-case digits
NameMenu ==
    LET good == IdToFileName(1234, 24782134)
        stem == SubSeq(good, 1, TableFileNameLength)
    IN {good, stem, <<>>, TableFileExtension, stem \o <<46, 115, 115>>,
        stem \o <<46, 83, 83, 84>>, stem \o TableFileExtension \o <<46, 98>>,
        SubSeq(stem, 1, 4) \o TableFileExtension,
        SubSeq(stem, 1, 23) \o TableFileExtension,
        stem \o <<48>> \o TableFileExtension,
        stem \o <<48, 48>> \o TableFileExtension}
       \cup {[stem EXCEPT ![i] = c] \o TableFileExtension
                : i \in {2, 8, 18, 24}, c \in {90, 71, 103, 58, 64, 96, 32, 97, 102}}

CodecInit ==
    /\ cdKind \in {"keys", "set", "buffer", "id", "name"}
    /\ cdKeys \in (IF cdKind = "keys" THEN CodecKeys \X CodecKeys \X CodecKeys
                   ELSE {<<<<<<>>, 1>>, <<<<>>, 1>>, <<<<>>, 1>>>>})
    /\ cdSet \in (IF cdKind = "set" THEN ChangeSets ELSE {<<>>})
    /\ cdBuffer \in (IF cdKind = "buffer" THEN BufferMenu
                     ELSE IF cdKind = "name" THEN NameMenu ELSE {<<>>})
    /\ cdIds \in (IF cdKind = "id" THEN IdMenu ELSE {<<0, 0>>})
    /\ cdDone = FALSE
    /\ cdCompare = [p \in (1..3) \X (1..3) |-> 0]
    /\ cdBytes = <<>>
    /\ cdBack = [changes |-> <<>>, err |-> Nil, partitionId |-> 0, fileId |-> 0, ok |-> FALSE]

\* the i-th key, with its timestamp
CodecKey(i) ==
    KeyWithTs(cdKeys[i][1], cdKeys[i][2])

\* z.CompareKeys on each pair of the three keys
CallCompareKeys ==
    /\ cdKind = "keys" /\ ~cdDone
    /\ cdDone' = TRUE
    /\ cdCompare' = [p \in (1..3) \X (1..3) |-> CompareKeys(CodecKey(p[1]), CodecKey(p[2]))]
    /\ UNCHANGED <<cdKind, cdKeys, cdSet, cdBuffer, cdIds, cdBytes, cdBack>>
    /\ UNCHANGED nonCodecVars

\* ManifestChangeSet.Marshal, and Unmarshal of what it gave
CallMarshal ==
    /\ cdKind = "set" /\ ~cdDone
    /\ cdDone' = TRUE
    /\ cdBytes' = MarshalSet(cdSet)
    /\ cdBack' = [cdBack EXCEPT !.changes = UnmarshalSet(MarshalSet(cdSet)).changes,
                                !.err = UnmarshalSet(MarshalSet(cdSet)).err]
    /\ UNCHANGED <<cdKind, cdKeys, cdSet, cdBuffer, cdIds, cdCompare>>
    /\ UNCHANGED nonCodecVars

\* ManifestChangeSet.Unmarshal of a buffer
CallUnmarshal ==
    /\ cdKind = "buffer" /\ ~cdDone
    /\ cdDone' = TRUE
    /\ cdBack' = [cdBack EXCEPT !.changes = UnmarshalSet(cdBuffer).changes,
                                !.err = UnmarshalSet(cdBuffer).err]
    /\ UNCHANGED <<cdKind, cdKeys, cdSet, cdBuffer, cdIds, cdCompare, cdBytes>>
    /\ UNCHANGED nonCodecVars

\* table.IdToFileName, and ParseFileId of the name it gave
CallIdToFileName ==
    /\ cdKind = "id" /\ ~cdDone
    /\ cdDone' = TRUE
    /\ cdBytes' = IdToFileName(cdIds[1], cdIds[2])
    /\ LET r == ParseFileId(IdToFileName(cdIds[1], cdIds[2]))
       IN cdBack' = [cdBack EXCEPT !.partitionId = r.partitionId, !.fileId = r.fileId,
                                   !.ok = r.ok]
    /\ UNCHANGED <<cdKind, cdKeys, cdSet, cdBuffer, cdIds, cdCompare>>
    /\ UNCHANGED nonCodecVars

\* table.ParseFileId of the name of a file
CallParseFileId ==
    /\ cdKind = "name" /\ ~cdDone
    /\ cdDone' = TRUE
    /\ LET r == ParseFileId(cdBuffer)
       IN cdBack' = [cdBack EXCEPT !.partitionId = r.partitionId, !.fileId = r.fileId,
                                   !.ok = r.ok]
    /\ UNCHANGED <<cdKind, cdKeys, cdSet, cdBuffer, cdIds, cdCompare, cdBytes>>
    /\ UNCHANGED nonCodecVars

NextCodec ==
    \/ CallCompareKeys
    \/ CallMarshal
    \/ CallUnmarshal
    \/ CallIdToFileName
    \/ CallParseFileId

(***************************************************************************)
(* Properties of the conversions.                                          *)
(***************************************************************************)
\* the order the keys are to have: by user key, a prefix first, then the
\* higher timestamp first; -1, 0 or 1
KeyOrder(k1, k2) ==
    IF BytesCompare(k1[1], k2[1]) # 0 THEN BytesCompare(k1[1], k2[1])
    ELSE IF k1[2] > k2[2] THEN -1
    ELSE IF k1[2] < k2[2] THEN 1
    ELSE 0

\* C23: CompareKeys on timestamped keys orders first by user key ascending, a
\* key that is a prefix of another first, and for equal user keys puts the
\* higher timestamp strictly before the lower; it is a total order.
C23_TimestampedKeyOrder ==
    (cdKind = "keys" /\ cdDone) =>
        /\ \A i, j \in 1..3 : cdCompare[<<i, j>>] = KeyOrder(cdKeys[i], cdKeys[j])
        /\ \A i, j \in 1..3 : cdCompare[<<i, j>>] = 0 <=> cdKeys[i] = cdKeys[j]
        /\ \A i, j \in 1..3 : cdCompare[<<i, j>>] = -cdCompare[<<j, i>>]
        /\ (cdCompare[<<1, 2>>] <= 0 /\ cdCompare[<<2, 3>>] <= 0) => cdCompare[<<1, 3>>] <= 0

\* "a" at the higher timestamp, before "a" at the lower, before "ab"
C23_Witness ==
    /\ cdKind = "keys" /\ cdDone
    /\ cdKeys = <<<<<<97>>, 256>>, <<<<97>>, 255>>, <<<<97, 98>>, 256>>>>
    /\ cdCompare[<<1, 2>>] = -1 /\ cdCompare[<<2, 3>>] = -1 /\ cdCompare[<<1, 3>>] = -1

\* the count a buffer declares asks for more bytes than the buffer has
DeclaresMoreThanHeld(src) ==
    \/ src[1] > 0 \/ src[2] > 0
    \/ 4 + ManifestChangeSize * (src[3] * 256 + src[4]) > Len(src)

\* C24: Marshal of a set of N changes is 4 + 24*N bytes and Unmarshal of it
\* gives the set back, every field of every change, in order; Unmarshal of a
\* buffer shorter than its declared count requires returns an error.
C24_MarshalRoundTrip ==
    /\ (cdKind = "set" /\ cdDone) =>
          /\ Len(cdBytes) = 4 + 24 * Len(cdSet)
          /\ cdBack.err = Nil
          /\ cdBack.changes = cdSet
    /\ (cdKind = "buffer" /\ cdDone /\ (Len(cdBuffer) < 4 \/ DeclaresMoreThanHeld(cdBuffer)))
          => cdBack.err = "short"

\* C25: ParseFileId(IdToFileName(p, f)) returns (p, f, true) and the name is 24
\* hexadecimal characters and ".sst"; ParseFileId returns ok = false for the
\* name of a file without the .sst extension, with a stem shorter or longer
\* than 24 characters, or with a character that is no hexadecimal digit.
C25_FileNameRoundTrip ==
    /\ (cdKind = "id" /\ cdDone) =>
          /\ cdBack.ok /\ cdBack.partitionId = cdIds[1] /\ cdBack.fileId = cdIds[2]
          /\ Len(cdBytes) = 24 + 4
          /\ \A i \in 1..24 : HexValue(cdBytes[i]) >= 0
          /\ SubSeq(cdBytes, 25, 28) = TableFileExtension
    /\ (cdKind = "name" /\ cdDone) =>
          LET n == Len(cdBuffer)
              hasExtension == n >= 4 /\ SubSeq(cdBuffer, n - 3, n) = TableFileExtension
          IN (\/ ~hasExtension
              \/ n - 4 # 24
              \/ \E i \in 1..(n - 4) : HexValue(cdBuffer[i]) < 0) => ~cdBack.ok

\* a table file named and parsed back, and a name one character too long
\* turned down
C25_Witness ==
    \/ /\ cdKind = "id" /\ cdDone /\ cdIds = <<1234, 24782134>> /\ cdBack.ok
    \/ /\ cdKind = "name" /\ cdDone /\ Len(cdBuffer) = 29
       /\ SubSeq(cdBuffer, 26, 29) = TableFileExtension /\ ~cdBack.ok

(***************************************************************************)
(* Properties of addChanges: rejected change sets and the rewrite test.    *)
(***************************************************************************)
\* The manifest file under the callers of addChanges alone: the churn workload
\* and the short one.
AddChangesInit ==
    /\ workload \in {"churn", "short"}
    /\ disk = <<>>
    /\ phase = "closed"
    /\ mfManifest = createManifest
    /\ opened = NoOpen
    /\ nextFileId = <<>>
    /\ lastErr = Nil
    /\ nOps = 0
    /\ ref = createManifest
    /\ clean = TRUE
    /\ crashCtx = NoCrash
    /\ created = {}
    /\ reused = FALSE
    /\ rewritten = FALSE

NextAddChanges ==
    \/ OpenManifest
    \/ NewLevelsController
    \/ \E changes \in Inputs : AddChanges(changes)
    \/ CloseManifest

\* what a later open would replay from the MANIFEST of the directory
ReplayOfDisk(files) ==
    ReplayManifestFile(files[ManifestFilename])

\* C26: while the manifest file is open, whatever addChanges calls were made
\* and whatever they returned, the MANIFEST on disk replays without error.
C26_StillReplayable ==
    phase = "open" => ReplayOfDisk(disk).err = Nil

\* applyChangeSet(m, s) accepts changes 1..k-1 of s and rejects change k
RejectedAt(m, s, k) ==
    /\ applyChangeSetFrom(m, SubSeq(s, 1, k - 1), 1).err = Nil
    /\ applyManifestChange(applyChangeSetFrom(m, SubSeq(s, 1, k - 1), 1).m, s[k]).err # Nil

\* how many of changes 1..k-1 of s have the operation op
CountOp(s, k, op) ==
    Cardinality({i \in 1..(k - 1) : s[i].Operation = op})

\* the (partition, table) pairs live after changes i..k-1 of s
RECURSIVE KeysAfter(_, _, _, _)
KeysAfter(keys, s, i, k) ==
    IF i >= k THEN keys
    ELSE IF s[i].Operation = ManifestChangeCreate
    THEN KeysAfter(keys \cup {<<s[i].PartitionId, s[i].TableId>>}, s, i + 1, k)
    ELSE KeysAfter(keys \ {<<s[i].PartitionId, s[i].TableId>>}, s, i + 1, k)

\* The step is addChanges(s) returning the error of change k, the file as it
\* was, and changes 1..k-1 applied to the manifest in memory.
PrefixRemains(s, k) ==
    /\ lastErr' # Nil
    /\ disk' = disk
    /\ mfManifest'.Creations = mfManifest.Creations + CountOp(s, k, ManifestChangeCreate)
    /\ mfManifest'.Deletions = mfManifest.Deletions + CountOp(s, k, ManifestChangeDelete)
    /\ TableKeys(mfManifest') = KeysAfter(TableKeys(mfManifest), s, 1, k)

\* C27 as stated: when change k of a set is rejected, changes 1..k-1 remain
\* applied in memory, addChanges returns the error and writes nothing, and
\* (some change remaining applied) the manifest in memory then differs from
\* the replay of the file.
C27_DiffersFromReplay ==
    [][(phase = "open" /\ nOps' = nOps + 1 /\ lastErr' # Nil) =>
          LET after == ReplayOfDisk(disk').manifest
          IN \A s \in Inputs : \A k \in 1..Len(s) :
                (/\ applyChangeSetFrom(mfManifest, s, 1).err = lastErr'
                 /\ RejectedAt(mfManifest, s, k)
                 /\ AddChanges(s)) =>
                    /\ PrefixRemains(s, k)
                    /\ k > 1 => mfManifest' # after]_manifestVars

\* C27: when change k of a set is rejected, changes 1..k-1 remain applied in
\* memory, addChanges returns the error and writes nothing; when some change
\* remains applied, the manifest in memory is no longer the one it was before
\* the call, so it differs from the replay of the file if it equalled it
\* before.
C27_NotAtomic ==
    [][(phase = "open" /\ nOps' = nOps + 1 /\ lastErr' # Nil) =>
          LET before == ReplayOfDisk(disk).manifest
              after == ReplayOfDisk(disk').manifest
          IN \A s \in Inputs : \A k \in 1..Len(s) :
                (/\ applyChangeSetFrom(mfManifest, s, 1).err = lastErr'
                 /\ RejectedAt(mfManifest, s, k)
                 /\ AddChanges(s)) =>
                    /\ PrefixRemains(s, k)
                    /\ k > 1 => mfManifest' # mfManifest
                    /\ (k > 1 /\ mfManifest = before) => mfManifest' # after]_manifestVars

\* C27 witness: the first call was rejected at its second change; the table
\* its first change created is live in memory and the file holds no record.
C27_Witness ==
    /\ phase = "open"
    /\ nOps = 1
    /\ lastErr # Nil
    /\ mfManifest.Creations = 1
    /\ mfManifest.TotalTables = 1
    /\ ReplayOfDisk(disk).manifest = createManifest

\* C28: a change applyManifestChange rejects leaves the manifest as it was,
\* its counters, its tables, its levels and its set of partitions.
C28_RejectedChangesNothing ==
    phase = "open" =>
        \A c \in MixedChanges :
            applyManifestChange(mfManifest, c).err # Nil =>
                applyManifestChange(mfManifest, c).m = mfManifest

\* the file is the old one and one [length][checksum][payload] record of s
AppendedOne(s) ==
    LET payload == MarshalSet(s)
        old == disk[ManifestFilename]
        new == disk'[ManifestFilename]
    IN /\ ~rewritten'
       /\ DOMAIN disk' = DOMAIN disk
       /\ \A n \in DOMAIN disk : n # ManifestFilename => disk'[n] = disk[n]
       /\ Len(new) = Len(old) + 8 + Len(payload)
       /\ SubSeq(new, 1, Len(old)) = old
       /\ Uint32(SubSeq(new, Len(old) + 1, Len(old) + 4)) = Len(payload)
       /\ Uint32(SubSeq(new, Len(old) + 5, Len(old) + 8)) = Checksum32(payload)
       /\ SubSeq(new, Len(old) + 9, Len(new)) = payload

\* the file is a new one: the header and one record of the live tables of m
Rewrote(m) ==
    LET r == ReplayOfDisk(disk')
    IN /\ rewritten'
       /\ SubSeq(disk'[ManifestFilename], 1, 8) = magicalText \o PutUint32(manifestVersion)
       /\ r.err = Nil
       /\ r.offset = Len(disk'[ManifestFilename])
       /\ r.manifest.Deletions = 0
       /\ r.manifest.Creations = m.TotalTables
       /\ TablesOf(r.manifest) = TablesOf(m)

\* C29: an addChanges that returns nil rewrites the file exactly when the
\* manifest with the change set applied has Deletions above the threshold and
\* above 10 * (Creations - Deletions); otherwise it appends one record of the
\* change set and leaves the earlier bytes of the file as they were.
C29_RewriteExactlyWhen ==
    [][(phase = "open" /\ nOps' = nOps + 1 /\ phase' = "open" /\ lastErr' = Nil) =>
          \A s \in Inputs :
             LET r == applyChangeSetFrom(mfManifest, s, 1)
             IN (r.err = Nil /\ TablesOf(mfManifest') = TablesOf(r.m) /\ AddChanges(s)) =>
                   IF /\ r.m.Deletions > DeletionsThreshold
                      /\ r.m.Deletions > 10 * (r.m.Creations - r.m.Deletions)
                   THEN Rewrote(r.m)
                   ELSE AppendedOne(s)]_manifestVars

\* C29 witness: the churn workload just after the call that rewrote the file,
\* the calls before it having appended a record each.
C29_Witness ==
    /\ workload = "churn"
    /\ phase = "open"
    /\ nOps = 12
    /\ rewritten
    /\ lastErr = Nil
    /\ mfManifest.TotalTables = 1
    /\ Len(disk[ManifestFilename]) = 8 + 8 + 4 + ManifestChangeSize

(***************************************************************************)
(* Progress of the throttle.                                               *)
(***************************************************************************)
\* worker w waits in Done to send its error, the buffer of errorChannel full
BlockedInDone(w) ==
    /\ thWorkers[w].pc = "send"
    /\ Len(thErrorChannel) = NewThrottle(throttleWorkers).errorChannel

\* C30: once the caller is in Finish after its last Do, no worker is left in
\* Done waiting to send its error on a full errorChannel: nothing receives
\* from it until waitGroup.Wait() returns, which waits for that worker, so
\* the worker would stay in Done, and the caller in Finish, forever.
C30_FinishReturns ==
    thPc = "finish" => \A w \in Jobs : ~BlockedInDone(w)

(***************************************************************************)
(* The order of the skiplist and the assertions of Put.                    *)
(***************************************************************************)
\* the nodes of the level-0 list after node n, in list order
RECURSIVE linkedFrom(_, _, _)
linkedFrom(ns, n, fuel) ==
    IF n = 0 \/ fuel = 0 THEN <<>>
    ELSE <<n>> \o linkedFrom(ns, ns[n].tower[0], fuel - 1)

Linked(ns) ==
    linkedFrom(ns, ns[head].tower[0], Len(ns) + 1)

\* user key ascending, and for one user key timestamp descending
Before(k1, k2) ==
    \/ BytesCompare(ParseKey(k1), ParseKey(k2)) < 0
    \/ ParseKey(k1) = ParseKey(k2) /\ Uint64([i \in 1..8 |-> 255 - k1[Len(k1) - 8 + i]])
                                        > Uint64([i \in 1..8 |-> 255 - k2[Len(k2) - 8 + i]])

Level0Ascending ==
    LET list == Linked(nodes)
    IN \A i \in 1..(Len(list) - 1) :
          /\ CompareKeys(nodes[list[i]].key, nodes[list[i + 1]].key) < 0
          /\ Before(nodes[list[i]].key, nodes[list[i + 1]].key)

\* the node of the level-0 list that holds key, 0 when there is none
LinkedNodeOf(ns, key) ==
    LET list == Linked(ns)
    IN IF \E i \in 1..Len(list) : ns[list[i]].key = key
       THEN list[CHOOSE i \in 1..Len(list) : ns[list[i]].key = key]
       ELSE 0

\* C31: in every state, Puts in progress or not, the level-0 list from the
\* head is strictly ascending (user key ascending, timestamp descending), so
\* no two of its nodes hold one timestamped key; a Put that searches for a
\* key the list holds allocates no node, and the step by which it returns
\* leaves the list as it is and stores its value in the node of the key.
C31_OrderedAndReplaced ==
    /\ []Level0Ascending
    /\ [][\A w \in Writers :
             /\ (put[w].pc = "splice" /\ put[w].ctx = "down" /\ put'[w] # put[w]
                    /\ LinkedNodeOf(nodes, put[w].key) # 0) =>
                   /\ put'[w].pc \in {"splice", "idle"}
                   /\ Len(nodes') = Len(nodes)
                   /\ Linked(nodes') = Linked(nodes)
                   /\ put'[w].pc = "idle" =>
                         nodes'[LinkedNodeOf(nodes, put[w].key)].value = put[w].value
             /\ (put[w].pc = "splice" /\ put'[w].pc = "newNode") =>
                   LinkedNodeOf(nodes, put[w].key) = 0]_skiplistVars

\* C31 witness: the second Put, of the key the first one put, has returned:
\* the list holds one node, with the value of the second Put.
C31_Witness ==
    /\ Quiescent
    /\ nPuts = 2
    /\ Cardinality({<<p.key, p.ts>> : p \in completed}) = 1
    /\ Len(nodes) = 2
    /\ Linked(nodes) = <<2>>
    /\ nodes[2].value = <<2>>

\* C32: no assertion of Put fails.  A level of which Put has no splice is
\* above level 1; the splice searched from the head on such a level does not
\* find the key; the splice searched again after a failed compare-and-swap
\* finds the key on level 0 only.
C32_AssertionsHold ==
    \A w \in Writers :
        LET t == put[w]
            r == findSpliceForLevel(t.key, t.before, t.i)
        IN /\ t.pc # "panic"
           /\ (t.pc = "link" /\ t.prev[t.i] = 0) => t.i > 1
           /\ (t.pc = "splice" /\ t.ctx = "above" /\ r.found) => r.outBefore # r.outAfter
           /\ (t.pc = "splice" /\ t.ctx = "retry" /\ r.found /\ r.outBefore = r.outAfter) =>
                 t.i = 0

\* C32 witness: the compare-and-swap of a writer failed on level 0 against
\* the node of the other writer, which holds the same key, while the list is
\* 3 levels high; the other writer searches level 2 from the head.
C32_Witness ==
    \E w, v \in Writers :
        /\ w # v
        /\ put[w].pc = "splice" /\ put[w].ctx = "retry" /\ put[w].i = 0
        /\ put[w].key = put[v].key
        /\ put[v].pc = "splice" /\ put[v].ctx = "above" /\ put[v].i = 2

(***************************************************************************)
(* addChanges called by several goroutines on one manifest file            *)
(* (manifest.go).  The write and the fsync succeed.                        *)
(***************************************************************************)
\* what the steps of addChanges leave alone
nonAppendVars ==
    <<storageVars, levelVars, throttleVars, openVars, refVars, closerVars, rangeVars, configVars,
      codecVars, tableVars>>

Callers == {1, 2}

\* The change sets the callers submit: a flush that creates table 1, two
\* compactions that each replace table 1, and a table created and dropped.
AppendSets ==
    {<<newCreateChange(0, 1, 0, 0, 0)>>,
     <<newCreateChange(0, 2, 1, 1, 1), newDeleteChange(0, 1)>>,
     <<newCreateChange(0, 3, 1, 0, 0), newDeleteChange(0, 1)>>,
     <<newCreateChange(0, 4, 0, 0, 0), newDeleteChange(0, 4)>>}

\* helpOpenOrCreateManifestFile on a directory without MANIFEST
AppendInit ==
    /\ alLock = 0
    /\ alManifest = createManifest
    /\ alFile = helpRewriteBytes(<<>>)
    /\ alPc = [c \in Callers |-> "idle"]
    /\ alSet = [c \in Callers |-> <<>>]
    /\ alErr = [c \in Callers |-> Nil]
    /\ alCalls = 0
    /\ alBase = helpRewriteBytes(<<>>)
    /\ alApplied = <<>>

\* addChanges(changes), not in memory: changes.Marshal()
AppendMarshal(c, changes) ==
    /\ alPc[c] = "idle"
    /\ alCalls < MaxAppendCalls
    /\ alCalls' = alCalls + 1
    /\ alPc' = [alPc EXCEPT ![c] = "lock"]
    /\ alSet' = [alSet EXCEPT ![c] = changes]
    /\ alErr' = [alErr EXCEPT ![c] = Nil]
    /\ UNCHANGED <<alLock, alManifest, alFile, alBase, alApplied>>
    /\ UNCHANGED nonAppendVars

\* addChanges without the append lock
AppendLock_None(c) ==
    /\ alPc[c] = "lock"
    /\ alPc' = [alPc EXCEPT ![c] = "apply"]
    /\ UNCHANGED <<alLock, alManifest, alFile, alSet, alErr, alCalls, alBase, alApplied>>
    /\ UNCHANGED nonAppendVars

\* mf.appendLock.Lock()
AppendLock(c) ==
    /\ alPc[c] = "lock"
    /\ alLock = 0
    /\ alLock' = c
    /\ alPc' = [alPc EXCEPT ![c] = "apply"]
    /\ UNCHANGED <<alManifest, alFile, alSet, alErr, alCalls, alBase, alApplied>>
    /\ UNCHANGED nonAppendVars

\* applyChangeSet(&mf.manifest, changes)
AppendApply(c) ==
    /\ alPc[c] = "apply"
    /\ LET r == applyChangeSet(alManifest, alSet[c])
       IN /\ alManifest' = r.m
          /\ alErr' = [alErr EXCEPT ![c] = r.err]
          /\ alPc' = [alPc EXCEPT ![c] = IF r.err # Nil THEN "return" ELSE "write"]
          /\ alApplied' = IF r.err # Nil THEN alApplied ELSE Append(alApplied, alSet[c])
    /\ UNCHANGED <<alLock, alFile, alSet, alCalls, alBase>>
    /\ UNCHANGED nonAppendVars

\* mf.rewrite(), or mf.file.Write of the record; then z.FileSync
AppendWrite(c) ==
    /\ alPc[c] = "write"
    /\ IF shouldRewrite(alManifest, DeletionsThreshold)
       THEN /\ \E order \in asChanges(alManifest) : alFile' = helpRewriteBytes(order)
            /\ alManifest' = afterRewrite(alManifest)
            /\ alBase' = alFile'
            /\ alApplied' = <<>>
       ELSE /\ alFile' = alFile \o Record(alSet[c])
            /\ UNCHANGED <<alManifest, alBase, alApplied>>
    /\ alPc' = [alPc EXCEPT ![c] = "return"]
    /\ UNCHANGED <<alLock, alSet, alErr, alCalls>>
    /\ UNCHANGED nonAppendVars

\* the deferred mf.appendLock.Unlock(), and the return
AppendUnlock(c) ==
    /\ alPc[c] = "return"
    /\ alLock' = IF alLock = c THEN 0 ELSE alLock
    /\ alPc' = [alPc EXCEPT ![c] = "idle"]
    /\ UNCHANGED <<alManifest, alFile, alSet, alErr, alCalls, alBase, alApplied>>
    /\ UNCHANGED nonAppendVars

NextAppend ==
    \/ \E c \in Callers, changes \in AppendSets : AppendMarshal(c, changes)
    \/ \E c \in Callers : AppendLock(c)
    \/ \E c \in Callers : AppendApply(c)
    \/ \E c \in Callers : AppendWrite(c)
    \/ \E c \in Callers : AppendUnlock(c)

(***************************************************************************)
(* Properties of concurrent addChanges calls.                              *)
(***************************************************************************)
RECURSIVE Records(_)
Records(sets) ==
    IF sets = <<>> THEN <<>> ELSE Record(Head(sets)) \o Records(Tail(sets))

\* the change sets applied whose caller has yet to write
Unwritten ==
    Cardinality({c \in Callers : alPc[c] = "write"})

\* The records of MANIFEST are those of the change sets applied, in the
\* order they were applied, each whole, the sets still to be written missing
\* at the end.
RecordsInAppliedOrder ==
    /\ Unwritten <= Len(alApplied)
    /\ Unwritten <= 1
    /\ alFile = alBase \o Records(SubSeq(alApplied, 1, Len(alApplied) - Unwritten))

\* C33: the records of MANIFEST are in the order in which their change sets
\* were applied to the manifest in memory, none interleaved with or
\* overwritten by another; so, no caller holding the lock, replaying the file
\* gives the live tables of the manifest in memory, at their levels.
C33_SerialisedAppends ==
    /\ RecordsInAppliedOrder
    /\ alLock = 0 =>
          /\ ReplayManifestFile(alFile).err = Nil
          /\ TablesOf(ReplayManifestFile(alFile).manifest) = TablesOf(alManifest)
          /\ LevelMembers(ReplayManifestFile(alFile).manifest) = LevelMembers(alManifest)

(***************************************************************************)
(* Opening the manifest read-write and read-only, and writing to it after. *)
(***************************************************************************)
\* helpOpenOrCreateManifestFile(directory, readOnly = true, DeletionsThreshold)
OpenManifestReadOnly ==
    /\ phase \in {"closed", "crashed", "panicked"}
    /\ \/ /\ ManifestFilename \notin DOMAIN disk
          /\ opened' = [manifest |-> createManifest, offset |-> 0,
                        err |-> "no manifest found, required for read-only db"]
          /\ phase' = "closed"
          /\ UNCHANGED mfManifest
       \/ /\ ManifestFilename \in DOMAIN disk
          /\ ReplayManifestFile(disk[ManifestFilename]).err # Nil
          /\ opened' = ReplayManifestFile(disk[ManifestFilename])
          /\ phase' = "closed"
          /\ UNCHANGED mfManifest
       \/ /\ ManifestFilename \in DOMAIN disk
          /\ ReplayManifestFile(disk[ManifestFilename]).err = Nil
          /\ opened' = ReplayManifestFile(disk[ManifestFilename])
          /\ mfManifest' = clone(ReplayManifestFile(disk[ManifestFilename]).manifest)
          /\ phase' = "read-only"
    /\ UNCHANGED <<disk, nextFileId, lastErr, workload, nOps, ref, clean, crashCtx, created,
                   reused, rewritten>>
    /\ UNCHANGED nonManifestVars

\* manifestFile.close() of the file opened read-only
CloseManifestReadOnly ==
    /\ phase = "read-only"
    /\ phase' = "closed"
    /\ UNCHANGED <<disk, mfManifest, opened, nextFileId, lastErr, workload, nOps, ref, clean,
                   crashCtx, created, reused, rewritten>>
    /\ UNCHANGED nonManifestVars

\* The directories of ReplayInit under the callers of the churn workload.
TruncateInit ==
    /\ disk \in {<<>>} \cup {ManifestFilename :> f : f \in ManifestFiles}
    /\ phase = "closed"
    /\ mfManifest = createManifest
    /\ opened = NoOpen
    /\ nextFileId = <<>>
    /\ lastErr = Nil
    /\ workload = "churn"
    /\ nOps = 0
    /\ ref = createManifest
    /\ clean = FALSE
    /\ crashCtx = NoCrash
    /\ created = {}
    /\ reused = FALSE
    /\ rewritten = FALSE

NextTruncate ==
    \/ OpenManifest
    \/ OpenManifestReadOnly
    \/ NewLevelsController
    \/ \E changes \in Inputs : AddChanges(changes)
    \/ CloseManifest
    \/ CloseManifestReadOnly

\* the step is an open of an existing MANIFEST that succeeds
OpensExisting ==
    /\ phase \in {"closed", "crashed", "panicked"}
    /\ ManifestFilename \in DOMAIN disk
    /\ phase' \in {"replayed", "read-only"}

\* C34: an open that succeeds gets from ReplayManifestFile the offset where
\* the last whole record it applied ends, 8 when there is none.  Read-write,
\* the file is cut to that offset, and the record of the first addChanges
\* after it starts there.  Read-only, the file keeps its bytes and its length.
C34_OffsetAndTruncate ==
    [][/\ OpensExisting =>
             /\ opened'.err = Nil
             /\ opened'.offset = GoodEnd(disk[ManifestFilename], 8)
             /\ opened'.offset >= 8
             /\ opened'.manifest
                   = ReplayManifestFile(SubSeq(disk[ManifestFilename], 1, opened'.offset)).manifest
       /\ (OpensExisting /\ phase' = "replayed") =>
             /\ Len(disk'[ManifestFilename]) = opened'.offset
             /\ disk'[ManifestFilename] = SubSeq(disk[ManifestFilename], 1, opened'.offset)
       /\ (OpensExisting /\ phase' = "read-only") => disk' = disk
       /\ phase = "read-only" => disk' = disk
       /\ (/\ phase = "open"
           /\ Len(disk[ManifestFilename]) = opened.offset
           /\ nOps' = nOps + 1
           /\ lastErr' = Nil
           /\ ~rewritten') =>
             /\ SubSeq(disk'[ManifestFilename], 1, opened.offset) = disk[ManifestFilename]
             /\ Len(disk'[ManifestFilename]) > opened.offset
             /\ GoodEnd(disk'[ManifestFilename], opened.offset) = Len(disk'[ManifestFilename])
      ]_manifestVars

\* C34 witness: a MANIFEST of one record and a second one cut short was opened
\* read-only, closed, opened read-write, and a change set was added.
C34_Witness ==
    /\ phase = "open"
    /\ opened.err = Nil
    /\ opened.offset = 8 + Len(FirstRecord)
    /\ nOps = 1
    /\ lastErr = Nil
    /\ SubSeq(disk[ManifestFilename], 1, opened.offset) = ManifestHeader \o FirstRecord
    /\ Len(disk[ManifestFilename]) = opened.offset + 8 + 4 + ManifestChangeSize

(***************************************************************************)
(* The partitions newLevelsController sets up.                             *)
(***************************************************************************)
\* C35: newLevelsController, given a manifest whose table files are all
\* there and open, succeeds with an entry for every partition of the manifest,
\* whose nextFileId is one more than the largest file id of the partition.
C35_EveryPartitionSetUp ==
    [][(phase = "replayed" /\ phase' # "replayed") =>
          /\ phase' = "open"
          /\ \A p \in DOMAIN opened.manifest.Partitions :
                /\ p \in DOMAIN nextFileId'
                /\ nextFileId'[p] = MaxOf(DOMAIN opened.manifest.Partitions[p].Tables \cup {0}) + 1
      ]_manifestVars

(***************************************************************************)
(* A table that does not open during startup.                              *)
(***************************************************************************)
\* table.OpenTable returned an error to worker w in this step
OpenTableFailed(w) ==
    /\ opWorkers[w].pc = "table"
    /\ opWorkers'[w].pc \notin {"table", "append"}

\* C36: a worker whose table.OpenTable fails, the failure not being a checksum
\* mismatch, hands an error to the throttle; and Open succeeds only with every
\* table of the manifest opened and attached.
C36_TableErrorFailsStartup ==
    /\ [](opPc = "ok" => Len(opTables) = opOptions.tables)
    /\ [][\A w \in OpenTableIds :
             OpenTableFailed(w) =>
                /\ opWorkers'[w].pc = "report"
                /\ opWorkers'[w].err # Nil]_openVars

(***************************************************************************)
(* What revertToManifest has removed when it fails.                        *)
(***************************************************************************)
\* C37: a revertToManifest that returns "file does not exist for table" has
\* removed no file: the directory is as it was when it was called.
C37_ErrorBeforeRemoval ==
    [][(stPc = "start" /\ stPc' = "error"
           /\ stErr'[1] = "file does not exist for table") =>
          /\ dirFiles' = dirFiles
          /\ stRemoved' = {}]_startupVars

\* C37 witness: a table of the manifest had no file, the error was returned,
\* and the file of a partition the manifest does not know is still there.
C37_Witness ==
    /\ stPc = "error"
    /\ stErr = ErrFileDoesNotExist(MaxTableId)
    /\ 1 \notin DOMAIN stManifest.Partitions
    /\ IdToFileName(1, OrphanId) \in dirFiles
    /\ stRemoved = {}

(***************************************************************************)
(* The directory under a read-only Open.                                   *)
(***************************************************************************)
\* C38: no step of a startup with Options.ReadOnly set changes the files of
\* the directory.
C38_ReadOnlyKeepsDirectory ==
    [][stReadOnly => dirFiles' = dirFiles]_startupVars

(***************************************************************************)
(* The reference count of a table (table/table.go).  Goroutine 0 is the    *)
(* one OpenTable gave the first reference to; a goroutine that holds a     *)
(* reference may take another one for a reader, and every holder gives its *)
(* own back once.  Truncate, Close and Remove may each fail.               *)
(***************************************************************************)
\* what the operations on a table leave alone
nonTableVars ==
    <<storageVars, levelVars, throttleVars, openVars, refVars, closerVars, rangeVars, configVars, codecVars, appendVars>>

\* the goroutines that hold a reference to the table
TableLive ==
    {g \in Holders : tbHolders[g] = "reference"}

\* DecrementReference that deletes the file one reference early
deletes_Early(newReference) ==
    newReference <= 1

\* DecrementReference goes on to delete the file when newReference == 0
deletes(newReference) ==
    newReference = 0

\* Table.Close(): the file handle is closed and the file left in the directory
Close(file) ==
    "closed"

\* OpenTable: references: 1, the caller is given one reference
TableInit ==
    /\ tbReferences = 1
    /\ tbFile = "open"
    /\ tbDisk = "whole"
    /\ tbHolders = [g \in Holders |-> IF g = Owner THEN "reference" ELSE "none"]
    /\ tbNewRef = [g \in Holders |-> 0]
    /\ tbEvents = <<>>

\* a holder calls IncrementReference for reader r
IncrementReference(r) ==
    /\ TableLive # {}
    /\ tbHolders[r] = "none"
    /\ tbReferences' = tbReferences + 1
    /\ tbHolders' = [tbHolders EXCEPT ![r] = "reference"]
    /\ UNCHANGED <<tbFile, tbDisk, tbNewRef, tbEvents>>
    /\ UNCHANGED nonTableVars

\* DecrementReference: newReference := atomic.AddInt32(&t.references, -1)
DecrementReference(g) ==
    /\ tbHolders[g] = "reference"
    /\ tbReferences' = tbReferences - 1
    /\ tbNewRef' = [tbNewRef EXCEPT ![g] = tbReferences - 1]
    /\ tbHolders' = [tbHolders EXCEPT ![g] = "decremented"]
    /\ UNCHANGED <<tbFile, tbDisk, tbEvents>>
    /\ UNCHANGED nonTableVars

\* DecrementReference: return nil unless newReference == 0; else Munmap, which
\* may fail, and t.file.Truncate(0), which fails on a closed file
DecrementReferenceTruncate(g) ==
    /\ tbHolders[g] = "decremented"
    /\ IF ~deletes(tbNewRef[g])
       THEN /\ tbHolders' = [tbHolders EXCEPT ![g] = "done"]
            /\ UNCHANGED <<tbDisk, tbEvents>>
       ELSE \/ /\ tbFile = "open"
               /\ tbDisk' = "truncated"
               /\ tbEvents' = Append(tbEvents, <<g, "truncate">>)
               /\ tbHolders' = [tbHolders EXCEPT ![g] = "truncated"]
            \/ /\ tbHolders' = [tbHolders EXCEPT ![g] = "error"]
               /\ UNCHANGED <<tbDisk, tbEvents>>
    /\ UNCHANGED <<tbReferences, tbFile, tbNewRef>>
    /\ UNCHANGED nonTableVars

\* DecrementReference: t.file.Close(), then os.Remove(fileName)
DecrementReferenceRemove(g) ==
    /\ tbHolders[g] = "truncated"
    /\ \/ /\ tbFile = "open"
          /\ tbFile' = "closed"
          /\ \/ /\ tbDisk' = "removed"
                /\ tbEvents' = Append(tbEvents, <<g, "remove">>)
                /\ tbHolders' = [tbHolders EXCEPT ![g] = "done"]
             \/ /\ tbHolders' = [tbHolders EXCEPT ![g] = "error"]
                /\ UNCHANGED <<tbDisk, tbEvents>>
       \/ /\ tbHolders' = [tbHolders EXCEPT ![g] = "error"]
          /\ UNCHANGED <<tbFile, tbDisk, tbEvents>>
    /\ UNCHANGED <<tbReferences, tbNewRef>>
    /\ UNCHANGED nonTableVars

\* closeAllTables of newLevelsController's cleanup, which has the only
\* reference: t.Close(), and the table is dropped
CloseAllTables ==
    /\ tbHolders = [g \in Holders |-> IF g = Owner THEN "reference" ELSE "none"]
    /\ tbFile' = Close(tbFile)
    /\ tbHolders' = [tbHolders EXCEPT ![Owner] = "closed"]
    /\ UNCHANGED <<tbReferences, tbDisk, tbNewRef, tbEvents>>
    /\ UNCHANGED nonTableVars

NextTable ==
    \/ \E r \in Readers : IncrementReference(r)
    \/ \E g \in Holders : DecrementReference(g)
    \/ \E g \in Holders : DecrementReferenceTruncate(g)
    \/ \E g \in Holders : DecrementReferenceRemove(g)
    \/ CloseAllTables

C40_InitTablesSorted ==
    lhPc \in {"loaded", "validated"} =>
        /\ Len(lhTables) = Len(lhGiven)
        /\ \E p \in Orderings(1..Len(lhGiven)) :
              lhTables = [i \in 1..Len(lhGiven) |-> lhGiven[p[i]]]
        /\ lhTotalSize = totalSize(lhTables)
        /\ lhTotalSize = totalSize(lhGiven)
        /\ lhLevel = 0 =>
              \A i, j \in 1..Len(lhTables) :
                 i < j => lhTables[i].fileId < lhTables[j].fileId
        /\ lhLevel >= 1 =>
              \A i, j \in 1..Len(lhTables) :
                 i < j => CompareKeys(lhTables[i].smallest, lhTables[j].smallest) <= 0

\* C40 witness: level 1 was given the table of b@1 before the table of a@2,
\* of two sizes, and holds them the other way round.
C40_Witness ==
    /\ lhPc = "loaded"
    /\ lhLevel = 1
    /\ Len(lhGiven) = 2
    /\ lhGiven[1].smallest = KeyWithTs(<<98>>, 1)
    /\ lhGiven[2].smallest = KeyWithTs(<<97>>, 2)
    /\ lhGiven[2].largest = KeyWithTs(<<98>>, 1)
    /\ lhTables = <<lhGiven[2], lhGiven[1]>>
    /\ lhTotalSize = 4096 + 65536

(***************************************************************************)
(* Specifications.                                                         *)
(***************************************************************************)
vars ==
    <<manifestVars, skiplistVars, lockVars, startupVars, componentVars>>

\* the startup at rest: nothing to reconcile and nothing begun
StartupIdle ==
    /\ stReadOnly = FALSE
    /\ dirFiles = {}
    /\ stManifest = createManifest
    /\ stPc = "idle"
    /\ stErr = Nil
    /\ stPartitions = <<>>
    /\ stRemoved = {}

\* the manifest file at rest
ManifestIdle ==
    workload = "mixed" /\ ManifestInit

\* the manifest, the skiplist, the lock and the startup at rest
StorageIdle ==
    ManifestIdle /\ SkiplistInit /\ LockInit /\ StartupIdle

\* a level handler nothing was handed to
LevelIdle ==
    lhLevel = 0 /\ LevelInit

\* a throttle nothing was dispatched through
ThrottleIdle ==
    ThrottleInit

\* no Open in progress
OpenIdle ==
    opOptions = [readOnly |-> FALSE, sameDirectory |-> TRUE, tables |-> 0] /\ OpenInit

\* a skiplist only its owner holds
RefIdle ==
    RefInit

\* a database opened with one compactor that has not started compaction
CloserIdle ==
    numCompactors = 1 /\ CloserInit

\* two infinite ranges, no call made
RangeIdle ==
    krA = infiniteRange /\ krB = infiniteRange /\ RangeInit

\* no Open with options under way
ConfigIdle ==
    /\ cfOptions = DefaultOptions
    /\ cfDisk = {}
    /\ ConfigInit

\* no conversion called: the empty change set, not marshalled
CodecIdle ==
    /\ cdKind = "set"
    /\ cdSet = <<>>
    /\ CodecInit

\* a manifest file just created, no caller inside addChanges
AppendIdle ==
    AppendInit

\* a table just opened, held by the goroutine that opened it
TableIdle ==
    TableInit

\* the components at rest
ComponentsIdle ==
    LevelIdle /\ ThrottleIdle /\ OpenIdle /\ RefIdle /\ CloserIdle /\ RangeIdle /\ ConfigIdle /\ CodecIdle /\ AppendIdle /\ TableIdle

\* The manifest file under its callers.
InitManifest ==
    ManifestInit /\ SkiplistInit /\ LockInit /\ StartupIdle /\ ComponentsIdle

SpecManifest ==
    InitManifest /\ [][NextManifest]_vars

\* The manifest file under addChanges calls, rejected ones among them.
InitAddChanges ==
    AddChangesInit /\ SkiplistInit /\ LockInit /\ StartupIdle /\ ComponentsIdle

SpecAddChanges ==
    InitAddChanges /\ [][NextAddChanges]_vars

\* The manifest files a directory may hold, opened read-write and read-only.
InitTruncate ==
    TruncateInit /\ SkiplistInit /\ LockInit /\ StartupIdle /\ ComponentsIdle

SpecTruncate ==
    InitTruncate /\ [][NextTruncate]_vars

\* Writers inside Put.
InitSkiplist ==
    SkiplistInit /\ ManifestIdle /\ LockInit /\ StartupIdle /\ ComponentsIdle

SpecSkiplist ==
    InitSkiplist /\ [][NextSkiplist]_vars

\* Open calls that contend for the lock of one directory.
InitLock ==
    LockInit /\ ManifestIdle /\ SkiplistInit /\ StartupIdle /\ ComponentsIdle

SpecLock ==
    InitLock /\ [][NextLock]_vars

\* The startups of the level controller over the manifests and directories
\* it may be given.
InitStartup ==
    StartupInit /\ ManifestIdle /\ SkiplistInit /\ LockInit /\ ComponentsIdle

SpecStartup ==
    InitStartup /\ [][NextStartup]_vars

\* Opening the manifest files a directory may hold.
InitReplay ==
    ReplayInit /\ SkiplistInit /\ LockInit /\ StartupIdle /\ ComponentsIdle

SpecReplay ==
    InitReplay /\ [][NextReplay]_vars

\* A level handler loaded with the tables of its level and validated.
InitLevel ==
    /\ LevelInit
    /\ StorageIdle
    /\ ThrottleIdle
    /\ OpenIdle
    /\ RefIdle
    /\ CloserIdle
    /\ RangeIdle
    /\ ConfigIdle
    /\ CodecIdle
    /\ AppendIdle
    /\ TableIdle

SpecLevel ==
    InitLevel /\ [][NextLevel]_vars

\* Work dispatched through a throttle, under any scheduling.
InitThrottle ==
    /\ ThrottleInit
    /\ StorageIdle
    /\ LevelIdle
    /\ OpenIdle
    /\ RefIdle
    /\ CloserIdle
    /\ RangeIdle
    /\ ConfigIdle
    /\ CodecIdle
    /\ AppendIdle
    /\ TableIdle

SpecThrottle ==
    InitThrottle /\ [][NextThrottle]_vars

\* One call of Open, each of its steps succeeding or failing.
InitOpen ==
    /\ OpenInit
    /\ StorageIdle
    /\ LevelIdle
    /\ ThrottleIdle
    /\ RefIdle
    /\ CloserIdle
    /\ RangeIdle
    /\ ConfigIdle
    /\ CodecIdle
    /\ AppendIdle
    /\ TableIdle

SpecOpen ==
    InitOpen /\ [][NextOpen]_vars

\* The owner of a skiplist and the goroutines it hands references to.
InitRef ==
    /\ RefInit
    /\ StorageIdle
    /\ LevelIdle
    /\ ThrottleIdle
    /\ OpenIdle
    /\ CloserIdle
    /\ RangeIdle
    /\ ConfigIdle
    /\ CodecIdle
    /\ AppendIdle
    /\ TableIdle

SpecRef ==
    InitRef /\ [][NextRef]_vars

\* The compaction workers of one database and the shutdown that stops them.
InitCloser ==
    /\ CloserInit
    /\ StorageIdle
    /\ LevelIdle
    /\ ThrottleIdle
    /\ OpenIdle
    /\ RefIdle
    /\ RangeIdle
    /\ ConfigIdle
    /\ CodecIdle
    /\ AppendIdle
    /\ TableIdle

SpecCloser ==
    InitCloser /\ [][NextCloser]_vars

\* The overlap test on every pair of key ranges over the key menu.
InitRange ==
    /\ RangeInit
    /\ StorageIdle
    /\ LevelIdle
    /\ ThrottleIdle
    /\ OpenIdle
    /\ RefIdle
    /\ CloserIdle
    /\ ConfigIdle
    /\ CodecIdle
    /\ AppendIdle
    /\ TableIdle

SpecRange ==
    InitRange /\ [][NextRange]_vars

\* Open called with each configuration, over each state of its directory.
InitConfig ==
    /\ ConfigInit /\ StorageIdle
    /\ LevelIdle /\ ThrottleIdle /\ OpenIdle /\ RefIdle /\ CloserIdle /\ RangeIdle
    /\ CodecIdle
    /\ AppendIdle
    /\ TableIdle

SpecConfig ==
    InitConfig /\ [][NextConfig]_vars

\* Each conversion called once on each input of its menu.
InitCodec ==
    /\ CodecInit /\ StorageIdle
    /\ LevelIdle /\ ThrottleIdle /\ OpenIdle /\ RefIdle /\ CloserIdle /\ RangeIdle /\ ConfigIdle
    /\ AppendIdle
    /\ TableIdle

SpecCodec ==
    InitCodec /\ [][NextCodec]_vars

\* Goroutines inside addChanges on one manifest file.
InitAppend ==
    /\ AppendInit /\ StorageIdle
    /\ LevelIdle /\ ThrottleIdle /\ OpenIdle /\ RefIdle /\ CloserIdle /\ RangeIdle /\ ConfigIdle /\ CodecIdle
    /\ TableIdle

SpecAppend ==
    InitAppend /\ [][NextAppend]_vars

\* A table and the goroutines that hold references to it.
InitTable ==
    /\ TableInit /\ StorageIdle
    /\ LevelIdle /\ ThrottleIdle /\ OpenIdle /\ RefIdle /\ CloserIdle /\ RangeIdle /\ ConfigIdle /\ CodecIdle /\ AppendIdle

SpecTable ==
    InitTable /\ [][NextTable]_vars

=============================================================================
